---- MODULE Spec2Model ----
(***************************************************************************)
(* Tree-walking interpreter: the environment chain (src/src/environment.rs *)
(* and src/src/interpreter/environment.rs) and the evaluator               *)
(* (src/src/interpreter.rs).                                               *)
(*                                                                         *)
(* The heap of Rc<RefCell<Environment>> frames is the sequence `frames`;   *)
(* a frame is addressed by its index, `enclosing = 0` is None.             *)
(* f64 numbers are modelled by integers, strings by TLA+ strings.          *)
(***************************************************************************)
EXTENDS Integers, Sequences, FiniteSets, TLC

VARIABLES
    frames,       \* the heap of environment frames
    environment,  \* Interpreter.environment: index of the current frame
    result,       \* what the last operation returned
    out,          \* values the last operation wrote with println!
    op,           \* the last operation and its arguments
    prev,         \* frames and environment before the last operation
    defined,      \* the variable the call before the last one defined at top level
    source,       \* the characters given to Scanner::new
    scanner,      \* the Scanner of src/src/scanner.rs
    lexer,        \* the Scanner of src/src/lexer.rs
    tokens,       \* the tokens given to Parser::new
    parser,       \* the Parser of src/src/parser.rs
    pulled,       \* what the calls of next() have returned so far, in order
    run           \* the locals of run of src/src/main.rs

vars ==
    <<frames, environment, result, out, op, prev, defined,
      source, scanner, lexer, tokens, parser, pulled, run>>

\* the front end (scanner, parser) and the back end (environment, evaluator)
front == <<source, scanner, lexer, tokens, parser, pulled, run>>
back == <<frames, environment, result, out, op, prev, defined>>

RECURSIVE assign(_, _, _, _)
RECURSIVE retrieve(_, _, _)
RECURSIVE env_assign(_, _, _, _)
RECURSIVE env_get(_, _, _)
RECURSIVE Chain(_, _)
RECURSIVE evaluate(_, _)
RECURSIVE execute(_, _)
RECURSIVE block_loop(_, _)
RECURSIVE while_loop(_, _, _, _)
RECURSIVE start_loop(_, _, _)
RECURSIVE StopAtFirstError(_, _, _)
RECURSIVE Concat(_)
RECURSIVE Decimal(_)
RECURSIVE Normal(_, _)
RECURSIVE Scanner_loop(_)
RECURSIVE expression(_)
RECURSIVE assignment(_)
RECURSIVE equality(_)
RECURSIVE comparision(_)
RECURSIVE term(_)
RECURSIVE factor(_)
RECURSIVE unary(_)
RECURSIVE primary(_)
RECURSIVE factor_loop(_, _)
RECURSIVE term_loop(_, _)
RECURSIVE comparision_loop(_, _)
RECURSIVE equality_loop(_, _)
RECURSIVE Strip(_)
RECURSIVE ParseItems(_, _)
RECURSIVE Pow10(_)
RECURSIVE u_to_string(_, _)
RECURSIVE Interpreter_evaluate(_, _)
RECURSIVE NamesAreIdentifiers(_)
RECURSIVE NumberTokens(_)
RECURSIVE Scanner_collect(_)
RECURSIVE word_loop(_, _)
RECURSIVE comment_loop(_)
RECURSIVE lexer_Scanner_next(_)
RECURSIVE lexer_Scanner_collect(_)

(***************************************************************************)
(* Bounds of the model.                                                    *)
(***************************************************************************)
MaxFrames == 2   \* frames a client of the environment creates
MaxHeap == 3     \* frames the interpreter holds when a call has returned
MaxIter == 2     \* iterations of one while loop that are followed
MaxSrc == 4      \* characters of a source
MaxNum == 5      \* characters of a source of digits and dots
MaxNones == 2    \* calls of next() that are followed after the first None
MaxTokens == 3   \* tokens before the Eof of a token sequence
MaxExtra == 2    \* calls of next() that are followed beyond one call per token

Names == {"a", "b"}

(***************************************************************************)
(* Values and results.                                                     *)
(***************************************************************************)
Value_Null == [t |-> "Null", b |-> FALSE, n |-> 0, s |-> ""]
Value_BOOLEAN(x) == [t |-> "BOOLEAN", b |-> x, n |-> 0, s |-> ""]
Value_NUMBER(x) == [t |-> "NUMBER", b |-> FALSE, n |-> x, s |-> ""]
Value_STRING(x) == [t |-> "STRING", b |-> FALSE, n |-> 0, s |-> x]

\* HashMap::get returning None: the key has no entry.
NoEntry == [t |-> "None", b |-> FALSE, n |-> 0, s |-> ""]

Ok(v) == [kind |-> "Ok", val |-> v, line |-> 0, message |-> ""]
RuntimeError(line, message) ==
    [kind |-> "Err", val |-> Value_Null, line |-> line, message |-> message]

\* Ok(()) of Result<(), RuntimeError>
OkUnit == [kind |-> "Ok", val |-> NoEntry, line |-> 0, message |-> ""]

\* the call has not returned: a while loop is still iterating after MaxIter
\* iterations
Running == [kind |-> "Running", val |-> Value_Null, line |-> 0, message |-> ""]

IsOk(r) == r.kind = "Ok"
IsErr(r) == r.kind = "Err"

None == <<>>
Some(x) == <<x>>

(***************************************************************************)
(* Tokens (src/src/token.rs), as far as the environment reads them.        *)
(***************************************************************************)
Token(lexeme, line) == [lexeme |-> lexeme, line |-> line]
Identifier(name) == [kind |-> "Identifier", name |-> name]

identifier(token) ==
    CASE token.lexeme.kind = "Identifier" -> token.lexeme.name

\* the identifier tokens of a source that names a on line 0 and b on line 1
NameToken(n) == Token(Identifier(n), IF n = "a" THEN 0 ELSE 1)

(***************************************************************************)
(* src/src/interpreter/environment.rs                                      *)
(***************************************************************************)
EmptyMap == [x \in Names |-> NoEntry]

contains_key(map, name) == map[name] # NoEntry

insert(map, name, value) == [map EXCEPT ![name] = value]

Environment_new == [variables |-> EmptyMap, enclosing |-> 0]

new_with_scope(env) == [variables |-> EmptyMap, enclosing |-> env]

define(fr, self, name, value) ==
    [fr EXCEPT ![self].variables = insert(@, name, value)]

NotExist(name) == RuntimeError(0, "Variable \"" \o name \o "\" does not exist")

\* mutant: the binding is made in the frame itself, whether it holds the name or not
assign_nocheck(fr, self, name, value) ==
    [res |-> OkUnit,
     frames |-> [fr EXCEPT ![self].variables = insert(@, name, value)]]

assign(fr, self, name, value) ==
    IF ~contains_key(fr[self].variables, name)
    THEN IF fr[self].enclosing # 0
         THEN assign(fr, fr[self].enclosing, name, value)
         ELSE [res |-> NotExist(name), frames |-> fr]
    ELSE [res |-> OkUnit,
          frames |-> [fr EXCEPT ![self].variables = insert(@, name, value)]]

\* mutant: the enclosing frames are not searched
retrieve_local(fr, self, name) ==
    IF contains_key(fr[self].variables, name)
    THEN Ok(fr[self].variables[name])
    ELSE NotExist(name)

retrieve(fr, self, name) ==
    IF contains_key(fr[self].variables, name)
    THEN Ok(fr[self].variables[name])
    ELSE IF fr[self].enclosing # 0
         THEN LET val == retrieve(fr, fr[self].enclosing, name)
              IN  IF IsOk(val) THEN Ok(val.val)
                  ELSE RuntimeError(val.line, val.message)
         ELSE NotExist(name)

(***************************************************************************)
(* src/src/environment.rs                                                  *)
(***************************************************************************)
EnvironmentData_new(enclosing) == [variables |-> EmptyMap, enclosing |-> enclosing]

env_new(enclosing) == EnvironmentData_new(enclosing)

\* mutant: the binding is made in the root frame
env_define_root(fr, env, name, value) ==
    [fr EXCEPT ![1].variables = insert(@, identifier(name), value)]

env_define(fr, env, name, value) ==
    [fr EXCEPT ![env].variables = insert(@, identifier(name), value)]

Undefined(name) ==
    RuntimeError(name.line, "Undefined variable '" \o identifier(name) \o "'.")

env_assign(fr, env, name, value) ==
    IF ~contains_key(fr[env].variables, identifier(name))
    THEN IF fr[env].enclosing # 0
         THEN env_assign(fr, fr[env].enclosing, name, value)
         ELSE [res |-> Undefined(name), frames |-> fr]
    ELSE [res |-> OkUnit,
          frames |-> [fr EXCEPT ![env].variables = insert(@, identifier(name), value)]]

env_get(fr, env, name) ==
    IF contains_key(fr[env].variables, identifier(name))
    THEN Ok(fr[env].variables[identifier(name)])
    ELSE IF fr[env].enclosing # 0
         THEN env_get(fr, fr[env].enclosing, name)
         ELSE Undefined(name)

(***************************************************************************)
(* The environment operations as a state machine: a client that holds      *)
(* every frame it created and calls the operations on any of them.         *)
(***************************************************************************)
EnvValues == {Value_NUMBER(1), Value_NUMBER(2)}

\* no scanner and no parser has been constructed
FrontIdle ==
    /\ source = <<>>
    /\ scanner = None
    /\ lexer = None
    /\ tokens = <<>>
    /\ parser = None
    /\ pulled = <<>>
    /\ run = None

Snapshot == [frames |-> frames, environment |-> environment]

EnvInit ==
    /\ frames = <<Environment_new>>
    /\ environment = 1
    /\ result = OkUnit
    /\ out = <<>>
    /\ op = [name |-> "new"]
    /\ prev = [frames |-> <<Environment_new>>, environment |-> 1]
    /\ defined = None
    /\ FrontIdle

NewScope(e) ==
    /\ Len(frames) < MaxFrames
    /\ frames' = Append(frames, new_with_scope(e))
    /\ result' = OkUnit
    /\ op' = [name |-> "new_with_scope", env |-> e]
    /\ prev' = Snapshot
    /\ UNCHANGED <<environment, out, defined>>
    /\ UNCHANGED front

EnvNew(e) ==
    /\ Len(frames) < MaxFrames
    /\ frames' = Append(frames, env_new(e))
    /\ result' = OkUnit
    /\ op' = [name |-> "env_new", env |-> e]
    /\ prev' = Snapshot
    /\ UNCHANGED <<environment, out, defined>>
    /\ UNCHANGED front

Define(e, n, v) ==
    /\ frames' = define(frames, e, n, v)
    /\ result' = OkUnit
    /\ op' = [name |-> "define", env |-> e, ident |-> n, value |-> v]
    /\ prev' = Snapshot
    /\ UNCHANGED <<environment, out, defined>>
    /\ UNCHANGED front

Assign(e, n, v) ==
    LET r == assign(frames, e, n, v)
    IN  /\ frames' = r.frames
        /\ result' = r.res
        /\ op' = [name |-> "assign", env |-> e, ident |-> n, value |-> v]
        /\ prev' = Snapshot
        /\ UNCHANGED <<environment, out, defined>>
        /\ UNCHANGED front

Retrieve(e, n) ==
    /\ result' = retrieve(frames, e, n)
    /\ op' = [name |-> "retrieve", env |-> e, ident |-> n]
    /\ prev' = Snapshot
    /\ UNCHANGED <<frames, environment, out, defined>>
    /\ UNCHANGED front

EnvDefine(e, n, v) ==
    /\ frames' = env_define(frames, e, NameToken(n), v)
    /\ result' = OkUnit
    /\ op' = [name |-> "env_define", env |-> e, ident |-> n, value |-> v]
    /\ prev' = Snapshot
    /\ UNCHANGED <<environment, out, defined>>
    /\ UNCHANGED front

EnvAssign(e, n, v) ==
    LET r == env_assign(frames, e, NameToken(n), v)
    IN  /\ frames' = r.frames
        /\ result' = r.res
        /\ op' = [name |-> "env_assign", env |-> e, ident |-> n, value |-> v]
        /\ prev' = Snapshot
        /\ UNCHANGED <<environment, out, defined>>
        /\ UNCHANGED front

EnvGet(e, n) ==
    /\ result' = env_get(frames, e, NameToken(n))
    /\ op' = [name |-> "env_get", env |-> e, ident |-> n]
    /\ prev' = Snapshot
    /\ UNCHANGED <<frames, environment, out, defined>>
    /\ UNCHANGED front

EnvNext ==
    \/ \E e \in 1..Len(frames) : NewScope(e)
    \/ \E e \in 1..Len(frames) : EnvNew(e)
    \/ \E e \in 1..Len(frames), n \in Names, v \in EnvValues : Define(e, n, v)
    \/ \E e \in 1..Len(frames), n \in Names, v \in EnvValues : Assign(e, n, v)
    \/ \E e \in 1..Len(frames), n \in Names : Retrieve(e, n)
    \/ \E e \in 1..Len(frames), n \in Names, v \in EnvValues : EnvDefine(e, n, v)
    \/ \E e \in 1..Len(frames), n \in Names, v \in EnvValues : EnvAssign(e, n, v)
    \/ \E e \in 1..Len(frames), n \in Names : EnvGet(e, n)

EnvSpec == EnvInit /\ [][EnvNext]_vars

(***************************************************************************)
(* The AST: src/src/parser/expression.rs and src/src/parser/statement.rs.  *)
(* An Option is a sequence of length at most one.                          *)
(***************************************************************************)
Expr_Assign(name, expr) == [kind |-> "Assign", name |-> name, expr |-> expr]
Expr_Binary(left, operator, right) ==
    [kind |-> "Binary", left |-> left, operator |-> operator, right |-> right]
Expr_Literal(val) == [kind |-> "Literal", val |-> val]
Expr_Logical(left, operator, right) ==
    [kind |-> "Logical", left |-> left, operator |-> operator, right |-> right]
Expr_Variable(name) == [kind |-> "Variable", name |-> name]
Expr_Unary(operator, right) == [kind |-> "Unary", operator |-> operator, right |-> right]
Expr_Grouping(expr) == [kind |-> "Grouping", expr |-> expr]
Expr_Error(line, message) == [kind |-> "Error", line |-> line, message |-> message]

Stmt_Block(stmts) == [kind |-> "Block", stmts |-> stmts]
Stmt_If(condition, then_branch, else_branch) ==
    [kind |-> "If", condition |-> condition, then_branch |-> then_branch,
     else_branch |-> else_branch]
Stmt_While(condition, body) == [kind |-> "While", condition |-> condition, body |-> body]
Stmt_VariableDef(ident, expr) == [kind |-> "VariableDef", ident |-> ident, expr_opt |-> expr]
Stmt_Print(expr) == [kind |-> "Print", expr_opt |-> expr]
Stmt_Expr(expr) == [kind |-> "Expr", expr |-> expr]
Stmt_Error(line, message) == [kind |-> "Error", line |-> line, message |-> message]

(***************************************************************************)
(* src/src/interpreter.rs.  An interpreter state st is                     *)
(* [frames, environment, out]; evaluate and execute return the result and  *)
(* the state they leave: [res, st].                                        *)
(***************************************************************************)
R(res, st) == [res |-> res, st |-> st]

unwrap_number(v) ==
    IF IsOk(v) /\ v.val.t = "NUMBER" THEN Ok(v.val) ELSE RuntimeError(0, "Not a number")

is_truthy(expr) ==
    CASE expr = Ok(Value_Null) -> FALSE
      [] expr = Ok(Value_BOOLEAN(FALSE)) -> FALSE
      [] OTHER -> TRUE

\* f64 division, where the quotient is a whole number
f64_div(x, y) == CASE y > 0 /\ x % y = 0 -> x \div y

visit_assign(name, expr, st) ==
    LET v == evaluate(expr, st)
    IN  IF ~IsOk(v.res) THEN v
        ELSE LET a == assign(v.st.frames, v.st.environment, name, v.res.val)
             IN  IF ~IsOk(a.res) THEN R(a.res, v.st)
                 ELSE R(Ok(v.res.val), [v.st EXCEPT !.frames = a.frames])

visit_binary(l, operator, r, st) ==
    LET a == evaluate(l, st)
        num == unwrap_number(a.res)
    IN  IF ~IsOk(num) THEN R(num, a.st)
        ELSE LET b == evaluate(r, a.st)
                 num2 == unwrap_number(b.res)
             IN  IF ~IsOk(num2) THEN R(num2, b.st)
                 ELSE R(CASE operator = "Minus" -> Ok(Value_NUMBER(num.val.n - num2.val.n))
                          [] operator = "Plus" -> Ok(Value_NUMBER(num.val.n + num2.val.n))
                          [] operator = "Slash" ->
                                Ok(Value_NUMBER(f64_div(num.val.n, num2.val.n)))
                          [] operator = "Star" -> Ok(Value_NUMBER(num.val.n * num2.val.n))
                          [] OTHER -> RuntimeError(0, "Invalid"),
                        b.st)

\* mutant: the right operand is evaluated before the left one is tested
visit_logical_eager(l, operator, r, st) ==
    LET left_result == evaluate(l, st)
        right_result == evaluate(r, left_result.st)
    IN  IF operator = "OR"
        THEN IF is_truthy(left_result.res) THEN R(left_result.res, right_result.st)
             ELSE right_result
        ELSE IF ~is_truthy(left_result.res) THEN R(left_result.res, right_result.st)
             ELSE right_result

visit_logical(l, operator, r, st) ==
    LET left_result == evaluate(l, st)
    IN  IF operator = "OR"
        THEN IF is_truthy(left_result.res) THEN left_result
             ELSE evaluate(r, left_result.st)
        ELSE IF ~is_truthy(left_result.res) THEN left_result
             ELSE evaluate(r, left_result.st)

visit_literal(val, st) == R(Ok(val), st)

visit_unary(operator, r, st) ==
    LET a == evaluate(r, st)
        num == unwrap_number(a.res)
    IN  IF ~IsOk(num) THEN R(num, a.st)
        ELSE R(CASE operator = "Minus" -> Ok(Value_NUMBER(0 - num.val.n))
                 [] operator = "Plus" -> Ok(Value_NUMBER(num.val.n))
                 [] OTHER -> RuntimeError(0, "Can only prefix a number with + or -"),
               a.st)

visit_grouping(expr, st) == evaluate(expr, st)

visit_variable(ident, st) == R(retrieve(st.frames, st.environment, ident), st)

ExpressionVisitor_visit_error(line, message, st) == R(RuntimeError(line, message), st)

\* Expr::accept
evaluate(expr, st) ==
    CASE expr.kind = "Assign" -> visit_assign(expr.name, expr.expr, st)
      [] expr.kind = "Binary" -> visit_binary(expr.left, expr.operator, expr.right, st)
      [] expr.kind = "Logical" -> visit_logical(expr.left, expr.operator, expr.right, st)
      [] expr.kind = "Unary" -> visit_unary(expr.operator, expr.right, st)
      [] expr.kind = "Grouping" -> visit_grouping(expr.expr, st)
      [] expr.kind = "Literal" -> visit_literal(expr.val, st)
      [] expr.kind = "Variable" -> visit_variable(expr.name, st)
      [] expr.kind = "Error" -> ExpressionVisitor_visit_error(expr.line, expr.message, st)

\* for stmt in stmts { self.execute(stmt)?; }
block_loop(stmts, st) ==
    IF stmts = <<>> THEN R(Ok(Value_Null), st)
    ELSE LET r == execute(Head(stmts), st)
         IN  IF ~IsOk(r.res) THEN r ELSE block_loop(Tail(stmts), r.st)

\* mutant: the saved frame is never made current again
visit_block_norestore(stmts, st) ==
    LET new_env == new_with_scope(st.environment)
        inner == [st EXCEPT !.frames = Append(@, new_env),
                            !.environment = Len(st.frames) + 1]
        r == block_loop(stmts, inner)
    IN  IF ~IsOk(r.res) THEN r ELSE R(Ok(Value_Null), r.st)

\* The child frame is the newest frame of the heap.  When self.environment is
\* set back to tmp, the last reference to every frame made since the block was
\* entered is dropped, and those frames with it.
visit_block(stmts, st) ==
    LET new_env == new_with_scope(st.environment)
        tmp == st.environment
        inner == [st EXCEPT !.frames = Append(@, new_env),
                            !.environment = Len(st.frames) + 1]
        r == block_loop(stmts, inner)
    IN  IF ~IsOk(r.res) THEN r
        ELSE R(Ok(Value_Null),
               [r.st EXCEPT !.environment = tmp,
                            !.frames = SubSeq(@, 1, Len(st.frames))])

visit_if(condition, then_branch, else_branch, st) ==
    LET c == evaluate(condition, st)
    IN  CASE c.res = Ok(Value_BOOLEAN(TRUE)) -> execute(then_branch, c.st)
          [] c.res = Ok(Value_BOOLEAN(FALSE)) ->
                IF else_branch # None THEN execute(else_branch[1], c.st)
                ELSE R(Ok(Value_Null), c.st)
          [] OTHER -> R(Ok(Value_Null), c.st)

\* while is_truthy(&self.evaluate(condition)) { let _ = self.execute(body); }
\* followed for `fuel` iterations
while_loop(condition, body, st, fuel) ==
    LET c == evaluate(condition, st)
    IN  IF ~is_truthy(c.res) THEN R(Ok(Value_Null), c.st)
        ELSE IF fuel = 0 THEN R(Running, c.st)
        ELSE LET b == execute(body, c.st)
             IN  IF b.res = Running THEN b
                 ELSE while_loop(condition, body, b.st, fuel - 1)

visit_while(condition, body, st) == while_loop(condition, body, st, MaxIter)

\* mutant: `var a;` defines a as Null
visit_variable_def_nil(ident, initializer, st) ==
    IF initializer # None
    THEN LET v == evaluate(initializer[1], st)
         IN  IF IsOk(v.res)
             THEN R(Ok(Value_Null),
                    [v.st EXCEPT !.frames = define(@, v.st.environment, ident, v.res.val)])
             ELSE v
    ELSE R(Ok(Value_Null),
           [st EXCEPT !.frames = define(@, st.environment, ident, Value_Null)])

visit_variable_def(ident, initializer, st) ==
    IF initializer # None
    THEN LET v == evaluate(initializer[1], st)
         IN  IF IsOk(v.res)
             THEN R(Ok(Value_Null),
                    [v.st EXCEPT !.frames = define(@, v.st.environment, ident, v.res.val)])
             ELSE v
    ELSE R(Ok(Value_Null), st)

visit_print(expr, st) ==
    IF expr # None
    THEN LET value == evaluate(expr[1], st)
         IN  IF ~IsOk(value.res) THEN value
             ELSE R(Ok(value.res.val), [value.st EXCEPT !.out = Append(@, value.res.val)])
    ELSE R(Ok(Value_Null), st)

visit_expr(expr, st) == evaluate(expr, st)

StatementVisitor_visit_error(line, message, st) == R(RuntimeError(line, message), st)

\* Stmt::accept
execute(stmt, st) ==
    CASE stmt.kind = "Block" -> visit_block(stmt.stmts, st)
      [] stmt.kind = "If" ->
            visit_if(stmt.condition, stmt.then_branch, stmt.else_branch, st)
      [] stmt.kind = "While" -> visit_while(stmt.condition, stmt.body, st)
      [] stmt.kind = "VariableDef" -> visit_variable_def(stmt.ident, stmt.expr_opt, st)
      [] stmt.kind = "Print" -> visit_print(stmt.expr_opt, st)
      [] stmt.kind = "Expr" -> visit_expr(stmt.expr, st)
      [] stmt.kind = "Error" -> StatementVisitor_visit_error(stmt.line, stmt.message, st)

\* while let Some(stmt) = iter_stmts.next() { result = self.execute(&stmt); }
start_loop(stmts, st, res) ==
    IF stmts = <<>> THEN R(res, st)
    ELSE LET r == execute(Head(stmts), st)
         IN  IF r.res = Running THEN r
             ELSE start_loop(Tail(stmts), r.st, r.res)

start(stmts, st) == start_loop(stmts, st, Ok(Value_Null))

Interpreter_new == [frames |-> <<Environment_new>>, environment |-> 1, out |-> <<>>]

(***************************************************************************)
(* The expressions, statements and programs the interpreter is given.      *)
(* Numbers are stored in a and booleans in b.                              *)
(***************************************************************************)
Lits ==
    {Value_NUMBER(1), Value_NUMBER(2), Value_BOOLEAN(TRUE), Value_BOOLEAN(FALSE),
     Value_STRING("hi"), Value_Null}

Num(k) == Expr_Literal(Value_NUMBER(k))
Bool(x) == Expr_Literal(Value_BOOLEAN(x))

Atoms == {Expr_Literal(v) : v \in Lits} \cup {Expr_Variable(n) : n \in Names}

StoresA == {Expr_Assign("a", Num(k)) : k \in {1, 2}}
StoresB == {Expr_Assign("b", Bool(x)) : x \in {TRUE, FALSE}}

Logicals ==
    {Expr_Logical(l, o, r) :
        l \in Atoms \cup StoresB, o \in {"OR", "AND"},
        r \in {Expr_Assign("a", Num(2)), Expr_Variable("b")}}

Binaries ==
    {Expr_Binary(l, o, r) :
        l \in {Num(1), Expr_Variable("a"), Expr_Assign("a", Num(1))},
        o \in {"Plus", "Minus", "Star", "Less"},
        r \in {Num(2), Expr_Literal(Value_STRING("hi"))}}

Unaries ==
    {Expr_Unary(o, r) : o \in {"Minus", "Plus", "Bang"}, r \in {Num(1), Bool(TRUE)}}

Others ==
    {Expr_Grouping(Expr_Variable("a")),
     Expr_Binary(Num(2), "Slash", Num(1)),
     Expr_Error(0, "Parsing error at RightParen")}

\* operators on operands that are not numbers, and on operands that store
Mixed ==
    {Expr_Binary(l, o, r) :
        l \in {Expr_Literal(Value_STRING("hi")), Bool(TRUE), Expr_Literal(Value_Null)},
        o \in {"Plus", "Minus"},
        r \in {Expr_Literal(Value_STRING("yo")), Num(2), Expr_Assign("a", Num(2))}}
    \cup {Expr_Binary(Expr_Literal(Value_STRING("hi")), o, r) :
            o \in {"Star", "Slash"}, r \in {Expr_Literal(Value_STRING("yo")), Num(2)}}
    \cup {Expr_Binary(Expr_Assign("a", Num(1)), o, Expr_Assign("b", Bool(TRUE))) :
            o \in {"Plus", "Star"}}
    \cup {Expr_Unary(o, r) :
            o \in {"Bang", "Minus"},
            r \in {Expr_Literal(Value_STRING("hi")), Expr_Literal(Value_Null), Bool(FALSE),
                   Num(2), Expr_Variable("a")}}

ExprInputs ==
    Atoms \cup StoresA \cup StoresB \cup Logicals \cup Binaries \cup Unaries \cup Others \cup Mixed

Defs ==
    {Stmt_VariableDef("a", Some(Num(k))) : k \in {1, 2}}
    \cup {Stmt_VariableDef("b", Some(Bool(x))) : x \in {TRUE, FALSE}}
    \cup {Stmt_VariableDef(n, None) : n \in Names}
    \cup {Stmt_VariableDef(n, Some(Expr_Variable(n))) : n \in Names}

Simple ==
    Defs
    \cup {Stmt_Expr(e) : e \in StoresA \cup StoresB \cup {Expr_Variable("a")}}
    \cup {Stmt_Print(None), Stmt_Print(Some(Expr_Variable("a"))), Stmt_Print(Some(Num(1))),
          Stmt_Error(0, "Unfinished print statement")}

\* what a block is made of
Inner ==
    {Stmt_VariableDef("a", Some(Num(2))), Stmt_VariableDef("b", Some(Bool(FALSE))),
     Stmt_VariableDef("a", None),
     Stmt_Expr(Expr_Assign("a", Num(1))), Stmt_Expr(Expr_Assign("b", Bool(FALSE))),
     Stmt_Expr(Expr_Variable("a")), Stmt_Print(Some(Expr_Variable("a")))}

Blocks1 == {Stmt_Block(<<s>>) : s \in Inner} \cup {Stmt_Block(<<>>)}
Blocks2 == {Stmt_Block(<<s, t>>) : s \in Inner, t \in Inner}
Nested ==
    {Stmt_Block(<<s, Stmt_Block(<<t>>)>>) :
        s \in {Stmt_VariableDef("a", Some(Num(2))), Stmt_Expr(Expr_Assign("b", Bool(FALSE)))},
        t \in {Stmt_Expr(Expr_Assign("a", Num(1))), Stmt_Expr(Expr_Variable("b")),
               Stmt_VariableDef("b", Some(Bool(TRUE)))}}
    \cup {Stmt_Block(<<Stmt_While(Expr_Variable("b"),
                                  Stmt_Block(<<Stmt_Expr(Expr_Assign("b", Bool(FALSE))), t>>)),
                       Stmt_VariableDef("a", Some(Num(2)))>>) :
            t \in {Stmt_Expr(Expr_Variable("a")), Stmt_Expr(Expr_Assign("a", Num(1)))}}

Ifs ==
    {Stmt_If(c, t, e) :
        c \in Atoms,
        t \in {Stmt_Expr(Expr_Assign("a", Num(1))),
               Stmt_Block(<<Stmt_VariableDef("a", Some(Num(2))),
                            Stmt_Print(Some(Expr_Variable("a")))>>)},
        e \in {None, Some(Stmt_Expr(Expr_Assign("a", Num(2))))}}

Whiles ==
    {Stmt_While(c, b) :
        c \in {Expr_Variable("a"), Expr_Variable("b"), Bool(FALSE), Bool(TRUE),
               Expr_Logical(Expr_Variable("b"), "AND", Expr_Assign("b", Bool(FALSE)))},
        b \in {Stmt_Block(<<Stmt_Expr(Expr_Assign("b", Bool(FALSE))),
                            Stmt_Expr(Expr_Assign("a", Num(2)))>>),
               Stmt_Block(<<Stmt_Expr(Expr_Assign("b", Bool(FALSE))),
                            Stmt_Expr(Expr_Variable("a"))>>),
               Stmt_Expr(Expr_Assign("b", Bool(FALSE))),
               Stmt_VariableDef("b", Some(Bool(FALSE))),
               Stmt_VariableDef("a", Some(Num(1))),
               Stmt_Print(Some(Expr_Variable("a")))}}

StmtInputs == Simple \cup Blocks1 \cup Blocks2 \cup Nested \cup Ifs \cup Whiles

\* what a program is made of
Top ==
    {Stmt_VariableDef("a", Some(Num(1))), Stmt_VariableDef("b", Some(Bool(TRUE))),
     Stmt_Expr(Expr_Assign("a", Num(2))), Stmt_Expr(Expr_Variable("b")),
     Stmt_Print(Some(Expr_Variable("a"))),
     Stmt_Block(<<Stmt_Expr(Expr_Assign("b", Bool(FALSE))), Stmt_Print(Some(Expr_Variable("b")))>>),
     Stmt_While(Expr_Variable("b"),
                Stmt_Block(<<Stmt_Expr(Expr_Assign("b", Bool(FALSE))),
                             Stmt_Expr(Expr_Assign("a", Num(2)))>>))}

Programs == {<<>>} \cup {<<s>> : s \in Top} \cup {<<s, t>> : s \in Top, t \in Top}

(***************************************************************************)
(* The interpreter as a state machine: a driver that holds one Interpreter *)
(* and calls start, execute and evaluate on it, reporting each result      *)
(* before the next call.                                                   *)
(***************************************************************************)
Init ==
    /\ frames = Interpreter_new.frames
    /\ environment = Interpreter_new.environment
    /\ result = Ok(Value_Null)
    /\ out = <<>>
    /\ op = [name |-> "new"]
    /\ prev = [frames |-> Interpreter_new.frames, environment |-> Interpreter_new.environment]
    /\ defined = None
    /\ FrontIdle

Idle == op.name \in {"new", "report"}

\* an interpreter constructed anew for the call
Cur_fresh == Interpreter_new

Cur == [frames |-> frames, environment |-> environment, out |-> <<>>]

Return(o, r) ==
    /\ Len(r.st.frames) <= MaxHeap
    /\ frames' = r.st.frames
    /\ environment' = r.st.environment
    /\ out' = r.st.out
    /\ result' = r.res
    /\ op' = o
    /\ prev' = Snapshot
    /\ UNCHANGED defined
    /\ UNCHANGED front

New ==
    /\ Idle
    /\ op.name = "report"
    /\ frames' = Interpreter_new.frames
    /\ environment' = Interpreter_new.environment
    /\ out' = <<>>
    /\ result' = Ok(Value_Null)
    /\ op' = [name |-> "new"]
    /\ prev' = [frames |-> Interpreter_new.frames, environment |-> Interpreter_new.environment]
    /\ defined' = None
    /\ UNCHANGED front

Start(p) == Idle /\ Return([name |-> "start", stmts |-> p], start(p, Cur))

Execute(s) == Idle /\ Return([name |-> "execute", stmt |-> s], execute(s, Cur))

Evaluate(e) == Idle /\ Return([name |-> "evaluate", expr |-> e], evaluate(e, Cur))

\* what a call defined at top level: the name of a `var` statement with an
\* initializer and the value the initializer had, None for any other call
TopLevelDefinition ==
    IF op.name = "execute" /\ op.stmt.kind = "VariableDef" /\ IsOk(result)
       /\ op.stmt.expr_opt # None
    THEN Some([ident |-> op.stmt.ident,
               value |-> evaluate(op.stmt.expr_opt[1],
                                  [frames |-> prev.frames,
                                   environment |-> prev.environment,
                                   out |-> <<>>]).res.val])
    ELSE None

\* the driver prints the result and is ready for the next call
Report ==
    /\ ~Idle
    /\ result # Running
    /\ op' = [name |-> "report"]
    /\ result' = Ok(Value_Null)
    /\ out' = <<>>
    /\ prev' = Snapshot
    /\ defined' = TopLevelDefinition
    /\ UNCHANGED <<frames, environment>>
    /\ UNCHANGED front

Next ==
    \/ New
    \/ \E p \in Programs : Start(p)
    \/ \E s \in StmtInputs : Execute(s)
    \/ \E e \in ExprInputs : Evaluate(e)
    \/ Report

Spec == Init /\ [][Next]_vars

(***************************************************************************)
(* Characters and lexemes (src/src/token.rs).  A source is a sequence of   *)
(* characters, a character a string of length one.  An f64 that a decimal  *)
(* text denotes is the pair <<m, e>> with value m / 10^e, e minimal.       *)
(***************************************************************************)
NL == "\n"
QUOTE == "\""

Digits == {"0", "1", "2", "3", "4", "5", "6", "7", "8", "9"}
Letters ==
    {"a", "b", "c", "d", "e", "f", "g", "h", "i", "j", "k", "l", "m",
     "n", "o", "p", "q", "r", "s", "t", "u", "v", "w", "x", "y", "z",
     "A", "B", "C", "D", "E", "F", "G", "H", "I", "J", "K", "L", "M",
     "N", "O", "P", "Q", "R", "S", "T", "U", "V", "W", "X", "Y", "Z"}
Punctuation == {"(", ")", "{", "}", ",", ".", "-", "+", ";", "*", "!", "=", "<", ">", "/"}
Blanks == {" ", "\r", "\t", NL}

\* every character a source of the model is written with
Chars == Digits \cup Letters \cup Punctuation \cup Blanks \cup {"_", QUOTE, "#"}

Lexeme(kind) == [kind |-> kind]
Lexeme_String(s) == [kind |-> "String", string |-> s]
Lexeme_Number(n) == [kind |-> "Number", number |-> n]

Keywords ==
    [and |-> "And", class |-> "Class", else |-> "Else", false |-> "False",
     for |-> "For", fun |-> "Fun", if |-> "If", nil |-> "Nil", or |-> "Or",
     print |-> "Print", return |-> "Return", super |-> "Super", this |-> "This",
     true |-> "True", var |-> "Var", while |-> "While"]

\* chars.iter().collect::<String>()
Concat(cs) ==
    IF cs = <<>> THEN "" ELSE Head(cs) \o Concat(Tail(cs))

DigitValue(c) ==
    CASE c = "0" -> 0 [] c = "1" -> 1 [] c = "2" -> 2 [] c = "3" -> 3 [] c = "4" -> 4
      [] c = "5" -> 5 [] c = "6" -> 6 [] c = "7" -> 7 [] c = "8" -> 8 [] c = "9" -> 9

\* the integer a sequence of digits denotes
Decimal(cs) ==
    IF cs = <<>> THEN 0 ELSE 10 * Decimal(SubSeq(cs, 1, Len(cs) - 1)) + DigitValue(cs[Len(cs)])

Normal(m, e) ==
    IF e > 0 /\ m % 10 = 0 THEN Normal(m \div 10, e - 1) ELSE <<m, e>>

\* str::parse::<f64>() of a text of digits and dots: Some(value), or None
\* for the Err of a text that is no decimal number
parse_f64(cs) ==
    LET dots == {i \in 1..Len(cs) : cs[i] = "."}
        digits == SelectSeq(cs, LAMBDA c : c \in Digits)
    IN  IF Cardinality(dots) > 1 \/ digits = <<>> THEN None
        ELSE IF dots = {} THEN Some(Normal(Decimal(digits), 0))
        ELSE LET d == CHOOSE i \in dots : TRUE
             IN  Some(Normal(Decimal(digits), Len(cs) - d))

(***************************************************************************)
(* src/src/scanner.rs.  A Scanner is [chars, line, done]: chars is what    *)
(* the peekable iterator has not given out yet.  An operation that takes   *)
(* &mut self returns what it returns and the scanner it leaves.            *)
(***************************************************************************)
UnexpectedCharacter(c) == [type |-> "UnexpectedCharacter", c |-> c]
UnterminatedString == [type |-> "UnterminatedString"]

ScanError(error, line) == [kind |-> "Err", error |-> error, line |-> line]
ScanOk(token) == [kind |-> "Ok", token |-> token]

is_digit(c) == c \in Digits
is_alpha(c) == c \in Letters \cup {"_"}
is_alpha_numeric(c) == is_alpha(c) \/ is_digit(c)

Scanner_new(src) == [chars |-> src, line |-> 0, done |-> FALSE]

build_token(self, lexeme) == ScanOk(Token(lexeme, self.line))

err(self, error) == ScanError(error, self.line)

peek_eq(self, cmp) == self.chars # <<>> /\ Head(self.chars) = cmp

at_end(self) == self.chars = <<>>

\* self.chars.next(), the character dropped
chars_next(self) == [self EXCEPT !.chars = Tail(@)]

if_match(self, cmp, match_lexeme, non_match_lexeme) ==
    IF peek_eq(self, cmp)
    THEN [res |-> build_token(self, match_lexeme), self |-> chars_next(self)]
    ELSE [res |-> build_token(self, non_match_lexeme), self |-> self]

\* how many characters at the front of cs are in P
Prefix(cs, P) ==
    CHOOSE k \in 0..Len(cs) :
        /\ \A i \in 1..k : cs[i] \in P
        /\ k = Len(cs) \/ cs[k + 1] \notin P

\* the predicate is the set P of the characters it holds of
collect_while(self, P) ==
    LET k == Prefix(self.chars, P)
    IN  [buffer |-> SubSeq(self.chars, 1, k),
         self |-> [self EXCEPT !.chars = SubSeq(@, k + 1, Len(@))]]

\* a string that forgets the line it started on
Scanner_string_resetline(self) ==
    LET c == collect_while(self, Chars \ {QUOTE})
        new_lines == Cardinality({i \in 1..Len(c.buffer) : c.buffer[i] = NL})
        s1 == [c.self EXCEPT !.line = new_lines]
    IN  IF at_end(s1) THEN [res |-> err(s1, UnterminatedString), self |-> s1]
        ELSE [res |-> build_token(s1, Lexeme_String(Concat(c.buffer))), self |-> chars_next(s1)]

Scanner_string(self) ==
    LET c == collect_while(self, Chars \ {QUOTE})
        new_lines == Cardinality({i \in 1..Len(c.buffer) : c.buffer[i] = NL})
        s1 == [c.self EXCEPT !.line = @ + new_lines]
    IN  IF at_end(s1) THEN [res |-> err(s1, UnterminatedString), self |-> s1]
        ELSE [res |-> build_token(s1, Lexeme_String(Concat(c.buffer))), self |-> chars_next(s1)]

Scanner_number(self, first_digit) ==
    LET c1 == collect_while(self, Digits)
        fraction ==
            /\ peek_eq(c1.self, ".")
            /\ Len(c1.self.chars) >= 2
            /\ is_digit(c1.self.chars[2])
        c2 == IF fraction THEN collect_while(chars_next(c1.self), Digits)
              ELSE [buffer |-> <<>>, self |-> c1.self]
        chars == <<first_digit>> \o c1.buffer
                 \o (IF fraction THEN <<".">> \o c2.buffer ELSE <<>>)
    IN  [res |-> build_token(c2.self, Lexeme_Number(parse_f64(chars)[1])),
         self |-> c2.self]

Scanner_identifier(self, first_char) ==
    LET c == collect_while(self, Letters \cup {"_"} \cup Digits)
        text == Concat(<<first_char>> \o c.buffer)
        lexeme == IF text \in DOMAIN Keywords THEN Lexeme(Keywords[text])
                  ELSE Identifier(text)
    IN  [res |-> build_token(c.self, lexeme), self |-> c.self]

Single ==
    [c \in {"(", ")", "{", "}", ",", ".", "-", "+", ";", "*"} |->
        CASE c = "(" -> "LeftParen" [] c = ")" -> "RightParen"
          [] c = "{" -> "LeftBrace" [] c = "}" -> "RightBrace"
          [] c = "," -> "Comma" [] c = "." -> "Dot" [] c = "-" -> "Minus"
          [] c = "+" -> "Plus" [] c = ";" -> "Semicolon" [] c = "*" -> "Star"]

\* an unexpected character that ends the scan
Scanner_other_halt(self, c) ==
    IF is_digit(c) THEN Scanner_number(self, c)
    ELSE IF is_alpha(c) THEN Scanner_identifier(self, c)
    ELSE [res |-> err(self, UnexpectedCharacter(c)), self |-> [self EXCEPT !.done = TRUE]]

\* the arm Some(c) of next
Scanner_other(self, c) ==
    IF is_digit(c) THEN Scanner_number(self, c)
    ELSE IF is_alpha(c) THEN Scanner_identifier(self, c)
    ELSE [res |-> err(self, UnexpectedCharacter(c)), self |-> self]

\* .take_while(|c| *c != '\n').for_each(drop): the characters up to a newline
\* are taken and dropped, and so is the newline that ended the taking
take_while_drop(self) ==
    LET k == Prefix(self.chars, Chars \ {NL})
    IN  [self EXCEPT !.chars = SubSeq(@, k + 2, Len(@))]

\* the loop of next
Scanner_loop(self) ==
    IF self.chars = <<>>
    THEN LET s == [self EXCEPT !.done = TRUE]
         IN  [res |-> build_token(s, Lexeme("Eof")), self |-> s]
    ELSE LET c == Head(self.chars)
             s == chars_next(self)
         IN  CASE c \in DOMAIN Single -> [res |-> build_token(s, Lexeme(Single[c])), self |-> s]
               [] c = "!" -> if_match(s, "=", Lexeme("BangEqual"), Lexeme("Bang"))
               [] c = "=" -> if_match(s, "=", Lexeme("EqualEqual"), Lexeme("Equal"))
               [] c = "<" -> if_match(s, "=", Lexeme("LessEqual"), Lexeme("Less"))
               [] c = ">" -> if_match(s, "=", Lexeme("GreaterEqual"), Lexeme("Greater"))
               [] c = "/" ->
                    IF peek_eq(s, "/") THEN Scanner_loop(take_while_drop(s))
                    ELSE [res |-> build_token(s, Lexeme("Slash")), self |-> s]
               [] c \in {" ", "\r", "\t"} -> Scanner_loop(s)
               [] c = NL -> Scanner_loop([s EXCEPT !.line = @ + 1])
               [] c = QUOTE -> Scanner_string(s)
               [] OTHER -> Scanner_other(s, c)

Scanner_next(self) ==
    IF self.done THEN [res |-> None, self |-> self]
    ELSE LET r == Scanner_loop(self)
         IN  [res |-> Some(r.res), self |-> r.self]

\* Scanner::new(&source).collect(): every item up to the first None
Scanner_collect(self) ==
    LET r == Scanner_next(self)
    IN  IF r.res = None THEN <<>> ELSE <<r.res[1]>> \o Scanner_collect(r.self)

(***************************************************************************)
(* src/src/lexer.rs.  This Scanner is [cursor, chars, line], cursor an     *)
(* index from 0 into the Vec chars; its items are Tokens.  A call that     *)
(* panics returns Panic.                                                   *)
(***************************************************************************)
LexemeKind(kind) == [kind |-> kind]
LexemeKind_IDENTIFIER(i) == [kind |-> "IDENTIFIER", name |-> i]
LexemeKind_STRING(s) == [kind |-> "STRING", string |-> s]
LexemeKind_NUMBER(n) == [kind |-> "NUMBER", number |-> n]
LexemeKind_UNEXPECTED(st) == [kind |-> "UNEXPECTED", string |-> st]

LexerKeywords ==
    [and |-> "AND", class |-> "CLASS", else |-> "ELSE", false |-> "FALSE",
     for |-> "FOR", fun |-> "FUN", if |-> "IF", nil |-> "NIL", or |-> "OR",
     print |-> "PRINT", return |-> "RETURN", super |-> "SUPER", this |-> "THIS",
     true |-> "TRUE", var |-> "VAR", while |-> "WHILE"]

Panic == Some([kind |-> "Panic"])

lexer_Scanner_new(src) == [cursor |-> 0, chars |-> src, line |-> 0]

\* Vec::get
get(chars, i) == IF i < Len(chars) THEN Some(chars[i + 1]) ELSE None

current_char(self) == get(self.chars, self.cursor)

peek_next(self) == get(self.chars, self.cursor + 1)

is_finished(self) == self.cursor >= Len(self.chars)

is_number(c) == c \in Digits

is_valid_ident(c) == c \in Letters \cup {"_"}

\* what is left of chars from the cursor on
Rest(self) == SubSeq(self.chars, self.cursor + 1, Len(self.chars))

\* res is what buffer.parse() returned, before the unwrap
number_boundary(self) ==
    LET k == Prefix(Rest(self), Digits \cup {"."})
    IN  [res |-> parse_f64(SubSeq(Rest(self), 1, k)),
         self |-> [self EXCEPT !.cursor = @ + k]]

\* the loop of word_boundary
word_loop(self, buffer) ==
    IF peek_next(self) = None THEN [res |-> buffer, self |-> self]
    ELSE LET c == current_char(self)[1]
         IN  IF c = QUOTE THEN [res |-> buffer, self |-> self]
             ELSE word_loop([self EXCEPT !.cursor = @ + 1], Append(buffer, c))

word_boundary(self) ==
    LET r == word_loop([self EXCEPT !.cursor = @ + 1], <<>>)
    IN  [res |-> Concat(r.res), self |-> r.self]

identifier_boundary(self) ==
    LET k == Prefix(Rest(self), Digits \cup Letters \cup {"_"})
        buffer == Concat(SubSeq(Rest(self), 1, k))
    IN  [res |-> IF buffer \in DOMAIN LexerKeywords THEN LexemeKind(LexerKeywords[buffer])
                 ELSE LexemeKind_IDENTIFIER(buffer),
         self |-> [self EXCEPT !.cursor = @ + k]]

\* the arms of `!`, `=`, `<` and `>`
lexer_if_match(self, match_lexeme, non_match_lexeme) ==
    IF peek_next(self) = Some("=")
    THEN [res |-> Some(Token(match_lexeme, self.line)), self |-> [self EXCEPT !.cursor = @ + 1]]
    ELSE [res |-> Some(Token(non_match_lexeme, self.line)), self |-> self]

\* the loop `while !done` of the comment arm
comment_loop(self) ==
    IF is_finished(self) THEN self
    ELSE IF peek_next(self) # Some(NL)
         THEN IF is_finished(self) THEN self
              ELSE comment_loop([self EXCEPT !.cursor = @ + 1])
         ELSE self

lexer_Scanner_next(self) ==
    IF is_finished(self) THEN [res |-> None, self |-> self]
    ELSE LET c == self.chars[self.cursor + 1]
         IN  IF is_number(c)
             THEN LET num == number_boundary(self)
                  IN  IF num.res = None THEN [res |-> Panic, self |-> num.self]
                      ELSE [res |-> Some(Token(LexemeKind_NUMBER(num.res[1]), num.self.line)),
                            self |-> num.self]
             ELSE IF is_valid_ident(c)
             THEN LET lexeme == identifier_boundary(self)
                  IN  [res |-> Some(Token(lexeme.res, lexeme.self.line)), self |-> lexeme.self]
             ELSE LET lexeme ==
                      CASE c \in DOMAIN Single ->
                             [res |-> Some(Token(LexemeKind(Single[c]), self.line)), self |-> self]
                        [] c = "!" -> lexer_if_match(self, LexemeKind("BangEqual"), LexemeKind("Bang"))
                        [] c = "=" -> lexer_if_match(self, LexemeKind("EqualEqual"), LexemeKind("Equal"))
                        [] c = "<" -> lexer_if_match(self, LexemeKind("LessEqual"), LexemeKind("Less"))
                        [] c = ">" -> lexer_if_match(self, LexemeKind("GreaterEqual"), LexemeKind("Greater"))
                        [] c = "/" ->
                             IF peek_next(self) = Some("/")
                             THEN lexer_Scanner_next(comment_loop([self EXCEPT !.cursor = @ + 1]))
                             ELSE [res |-> Some(Token(LexemeKind("Slash"), self.line)), self |-> self]
                        [] c \in Blanks ->
                             LET s == IF c = NL THEN [self EXCEPT !.line = @ + 1] ELSE self
                             IN  [res |-> Some(Token(LexemeKind("Whitespace"), s.line)), self |-> s]
                        [] c = QUOTE ->
                             LET word == word_boundary(self)
                             IN  [res |-> Some(Token(LexemeKind_STRING(word.res), word.self.line)),
                                  self |-> word.self]
                        [] OTHER ->
                             IF is_finished(self)
                             THEN [res |-> Some(Token(LexemeKind("EOF"), self.line)), self |-> self]
                             ELSE [res |-> Some(Token(LexemeKind_UNEXPECTED(c), self.line)),
                                   self |-> self]
                  IN  [res |-> lexeme.res, self |-> [lexeme.self EXCEPT !.cursor = @ + 1]]

\* Scanner::new(source).collect(): every item up to the first None or panic
lexer_Scanner_collect(self) ==
    LET r == lexer_Scanner_next(self)
    IN  IF r.res = None THEN <<>>
        ELSE IF r.res = Panic THEN <<r.res[1]>>
        ELSE <<r.res[1]>> \o lexer_Scanner_collect(r.self)

(***************************************************************************)
(* The scanners as state machines: a scanner is constructed on a source    *)
(* and next() is called on it again and again.                             *)
(***************************************************************************)
Alphabet == {"1", ".", "/", NL, QUOTE, "a", " ", "#"}
NumberAlphabet == {"1", "2", "3", "."}

Sources ==
    UNION {[1..n -> Alphabet] : n \in 0..MaxSrc}
    \cup UNION {[1..n -> NumberAlphabet] : n \in 1..MaxNum}

Nones(items) == Cardinality({i \in 1..Len(items) : items[i] = None})

\* no interpreter is involved
BackIdle ==
    /\ frames = <<>>
    /\ environment = 0
    /\ result = Ok(Value_Null)
    /\ out = <<>>
    /\ defined = None

ScanInit ==
    /\ source \in Sources
    /\ scanner = Scanner_new(source)
    /\ lexer = None
    /\ tokens = <<>>
    /\ parser = None
    /\ pulled = <<>>
    /\ run = None
    /\ op = [name |-> "new"]
    /\ prev = scanner
    /\ BackIdle

ScannerNext ==
    /\ Nones(pulled) < MaxNones
    /\ LET r == Scanner_next(scanner)
       IN  /\ scanner' = r.self
           /\ pulled' = Append(pulled, r.res)
    /\ op' = [name |-> "next"]
    /\ prev' = scanner
    /\ UNCHANGED <<frames, environment, result, out, defined>>
    /\ UNCHANGED <<source, lexer, tokens, parser, run>>

ScanNext == ScannerNext

ScanSpec == ScanInit /\ [][ScanNext]_vars

LexInit ==
    /\ source \in Sources
    /\ scanner = None
    /\ lexer = lexer_Scanner_new(source)
    /\ tokens = <<>>
    /\ parser = None
    /\ pulled = <<>>
    /\ run = None
    /\ op = [name |-> "new"]
    /\ prev = lexer
    /\ BackIdle

LexerNext ==
    /\ Nones(pulled) < MaxNones
    /\ Panic \notin {pulled[i] : i \in 1..Len(pulled)}
    /\ LET r == lexer_Scanner_next(lexer)
       IN  /\ lexer' = r.self
           /\ pulled' = Append(pulled, r.res)
    /\ op' = [name |-> "next"]
    /\ prev' = lexer
    /\ UNCHANGED <<frames, environment, result, out, defined>>
    /\ UNCHANGED <<source, scanner, tokens, parser, run>>

LexNext == LexerNext

LexSpec == LexInit /\ [][LexNext]_vars

(***************************************************************************)
(* src/src/expression.rs and src/src/statement.rs: the AST of parser.rs.   *)
(***************************************************************************)
Value_String(s) == [type |-> "String", string |-> s]
Value_Number(n) == [type |-> "Number", number |-> n]
Value_Bool(b) == [type |-> "Bool", bool |-> b]
Value_Nil == [type |-> "Nil"]

Expression_Assign(name, value) == [kind |-> "Assign", name |-> name, value |-> value]
Expression_Binary(left, operator, right) ==
    [kind |-> "Binary", left |-> left, operator |-> operator, right |-> right]
Expression_Grouping(e) == [kind |-> "Grouping", expression |-> e]
Expression_Literal(v) == [kind |-> "Literal", literal |-> v]
Expression_Unary(operator, e) == [kind |-> "Unary", operator |-> operator, expression |-> e]
Expression_Variable(name) == [kind |-> "Variable", name |-> name]

Statement_Expression(e) == [kind |-> "Expression", expression |-> e]
Statement_Print(e) == [kind |-> "Print", expression |-> e]
Statement_Var(name, initializer) == [kind |-> "Var", name |-> name, initializer |-> initializer]

(***************************************************************************)
(* src/src/parser.rs.  A Parser is [tokens]: what the peekable iterator    *)
(* has not given out yet.  A parse function returns its result and the     *)
(* parser it leaves.                                                       *)
(***************************************************************************)
ParseOk(x) == [kind |-> "Ok", value |-> x]
InvalidAssignmentTarget(token) ==
    [kind |-> "Err", error |-> "InvalidAssignmentTarget", token |-> token]
UnexpectedToken(token, message) ==
    [kind |-> "Err", error |-> "UnexpectedToken", token |-> token, message |-> message]
UnexpectedEnd == [kind |-> "Err", error |-> "UnexpectedEnd"]

Parser_new(toks) == [tokens |-> toks]

\* self.tokens.next().map(|t| t.clone())
advance(self) ==
    IF self.tokens = <<>> THEN [res |-> None, self |-> self]
    ELSE [res |-> Some(Head(self.tokens)), self |-> [self EXCEPT !.tokens = Tail(@)]]

peek_lexeme(self) == IF self.tokens = <<>> THEN None ELSE Some(Head(self.tokens).lexeme)

\* matches!(self.peek_lexeme(), Some(&Lexeme::..)) for the lexemes of kinds
peek_matches(self, kinds) == peek_lexeme(self) # None /\ peek_lexeme(self)[1].kind \in kinds

\* a consume that advances past the token it rejects
consume_taking(self, kinds, error_message) ==
    IF self.tokens = <<>> THEN [res |-> UnexpectedEnd, self |-> self]
    ELSE IF Head(self.tokens).lexeme.kind \in kinds
    THEN [res |-> ParseOk(Head(self.tokens)), self |-> advance(self).self]
    ELSE [res |-> UnexpectedToken(Head(self.tokens), error_message),
          self |-> advance(self).self]

\* the predicate is the set of the kinds of lexeme it holds of
consume(self, kinds, error_message) ==
    IF self.tokens = <<>> THEN [res |-> UnexpectedEnd, self |-> self]
    ELSE IF Head(self.tokens).lexeme.kind \in kinds
    THEN [res |-> ParseOk(Head(self.tokens)), self |-> advance(self).self]
    ELSE [res |-> UnexpectedToken(Head(self.tokens), error_message), self |-> self]

\* the arm Lexeme::LeftParen of primary, once the inner expression is parsed
primary_closing(expr, c) ==
    IF c.res.kind = "Err" THEN c
    ELSE [res |-> ParseOk(Expression_Grouping(expr.res.value)), self |-> c.self]

primary_grouping(expr) ==
    IF expr.res.kind = "Err" THEN expr
    ELSE primary_closing(expr, consume(expr.self, {"RightParen"}, "Expected ')' after expression."))

\* the match on the token advance() gave, s the parser after it
primary_token(token, s) ==
    LET k == token.lexeme.kind
    IN  CASE k = "False" -> [res |-> ParseOk(Expression_Literal(Value_Bool(FALSE))), self |-> s]
          [] k = "True" -> [res |-> ParseOk(Expression_Literal(Value_Bool(TRUE))), self |-> s]
          [] k = "Nil" -> [res |-> ParseOk(Expression_Literal(Value_Nil)), self |-> s]
          [] k = "Number" ->
               [res |-> ParseOk(Expression_Literal(Value_Number(token.lexeme.number))), self |-> s]
          [] k = "String" ->
               [res |-> ParseOk(Expression_Literal(Value_String(token.lexeme.string))), self |-> s]
          [] k = "Identifier" -> [res |-> ParseOk(Expression_Variable(token)), self |-> s]
          [] k = "LeftParen" -> primary_grouping(expression(s))
          [] OTHER -> [res |-> UnexpectedToken(token, "Expected expression."), self |-> s]

\* match self.advance(): the arm None, and the arms Some(token)
primary_advanced(a) ==
    IF a.res = None THEN [res |-> UnexpectedEnd, self |-> a.self]
    ELSE primary_token(a.res[1], a.self)

primary(self) == primary_advanced(advance(self))

\* the arm of unary that saw `!` or `-`, once its operand is parsed
unary_right(operator, right) ==
    IF right.res.kind = "Err" THEN right
    ELSE [res |-> ParseOk(Expression_Unary(operator, right.res.value)), self |-> right.self]

unary(self) ==
    IF peek_matches(self, {"Bang", "Minus"})
    THEN unary_right(advance(self).res[1], unary(advance(self).self))
    ELSE primary(self)

\* factor: the loop `while matches!(self.peek_lexeme(), ..)` once its right operand is parsed
factor_right(expr, operator, right) ==
    IF right.res.kind = "Err" THEN right
    ELSE factor_loop(Expression_Binary(expr, operator, right.res.value), right.self)

factor_loop(expr, self) ==
    IF peek_matches(self, {"Slash", "Star"})
    THEN factor_right(expr, advance(self).res[1], unary(advance(self).self))
    ELSE [res |-> ParseOk(expr), self |-> self]

\* let mut expr = self.unary()?;
factor_left(expr) ==
    IF expr.res.kind = "Err" THEN expr ELSE factor_loop(expr.res.value, expr.self)

factor(self) == factor_left(unary(self))

\* a loop of term that folds its operands to the right
term_right_assoc(expr, operator, right) ==
    IF right.res.kind = "Err" THEN right
    ELSE LET rest == term_loop(right.res.value, right.self)
         IN  IF rest.res.kind = "Err" THEN rest
             ELSE [res |-> ParseOk(Expression_Binary(expr, operator, rest.res.value)),
                   self |-> rest.self]

\* term: the loop `while matches!(self.peek_lexeme(), ..)` once its right operand is parsed
term_right(expr, operator, right) ==
    IF right.res.kind = "Err" THEN right
    ELSE term_loop(Expression_Binary(expr, operator, right.res.value), right.self)

term_loop(expr, self) ==
    IF peek_matches(self, {"Minus", "Plus"})
    THEN term_right(expr, advance(self).res[1], factor(advance(self).self))
    ELSE [res |-> ParseOk(expr), self |-> self]

\* let mut expr = self.factor()?;
term_left(expr) ==
    IF expr.res.kind = "Err" THEN expr ELSE term_loop(expr.res.value, expr.self)

term(self) == term_left(factor(self))

\* comparision: the loop `while matches!(self.peek_lexeme(), ..)` once its right operand is parsed
comparision_right(expr, operator, right) ==
    IF right.res.kind = "Err" THEN right
    ELSE comparision_loop(Expression_Binary(expr, operator, right.res.value), right.self)

comparision_loop(expr, self) ==
    IF peek_matches(self, {"Greater", "GreaterEqual", "Less", "LessEqual"})
    THEN comparision_right(expr, advance(self).res[1], term(advance(self).self))
    ELSE [res |-> ParseOk(expr), self |-> self]

\* let mut expr = self.term()?;
comparision_left(expr) ==
    IF expr.res.kind = "Err" THEN expr ELSE comparision_loop(expr.res.value, expr.self)

comparision(self) == comparision_left(term(self))

\* equality: the loop `while matches!(self.peek_lexeme(), ..)` once its right operand is parsed
equality_right(expr, operator, right) ==
    IF right.res.kind = "Err" THEN right
    ELSE equality_loop(Expression_Binary(expr, operator, right.res.value), right.self)

equality_loop(expr, self) ==
    IF peek_matches(self, {"BangEqual", "EqualEqual"})
    THEN equality_right(expr, advance(self).res[1], comparision(advance(self).self))
    ELSE [res |-> ParseOk(expr), self |-> self]

\* let mut expr = self.comparision()?;
equality_left(expr) ==
    IF expr.res.kind = "Err" THEN expr ELSE equality_loop(expr.res.value, expr.self)

equality(self) == equality_left(comparision(self))

\* an assignment target check that takes a parenthesized variable for a variable
assignment_grouping(expr, equals, value) ==
    IF value.res.kind = "Err" THEN value
    ELSE IF expr.res.value.kind = "Variable"
    THEN [res |-> ParseOk(Expression_Assign(expr.res.value.name, value.res.value)),
          self |-> value.self]
    ELSE IF expr.res.value.kind = "Grouping" /\ expr.res.value.expression.kind = "Variable"
    THEN [res |-> ParseOk(Expression_Assign(expr.res.value.expression.name, value.res.value)),
          self |-> value.self]
    ELSE [res |-> InvalidAssignmentTarget(equals), self |-> value.self]

\* assignment once `=` and the value after it are parsed: the match on expr
assignment_target(expr, equals, value) ==
    IF value.res.kind = "Err" THEN value
    ELSE IF expr.res.value.kind = "Variable"
    THEN [res |-> ParseOk(Expression_Assign(expr.res.value.name, value.res.value)),
          self |-> value.self]
    ELSE [res |-> InvalidAssignmentTarget(equals), self |-> value.self]

\* let expr = self.equality()?; if let Some(&Lexeme::Equal) = self.peek_lexeme() ..
assignment_left(expr) ==
    IF expr.res.kind = "Err" THEN expr
    ELSE IF peek_matches(expr.self, {"Equal"})
    THEN assignment_target(expr, advance(expr.self).res[1], assignment(advance(expr.self).self))
    ELSE expr

assignment(self) == assignment_left(equality(self))

expression(self) == assignment(self)

\* the statement of the given kind once `;` was looked for
statement_end(kind, expr, c) ==
    IF c.res.kind = "Err" THEN c
    ELSE [res |-> ParseOk(IF kind = "Print" THEN Statement_Print(expr.res.value)
                          ELSE Statement_Expression(expr.res.value)),
          self |-> c.self]

\* let expr = self.expression()?; self.consume(.. Semicolon ..)?
statement_value(kind, expr) ==
    IF expr.res.kind = "Err" THEN expr
    ELSE statement_end(kind, expr, consume(expr.self, {"Semicolon"}, "Expected ';' after value."))

expression_statement(self) == statement_value("Expression", expression(self))

print_statement(self) == statement_value("Print", expression(self))

statement(self) ==
    IF peek_matches(self, {"Print"}) THEN print_statement(advance(self).self)
    ELSE expression_statement(self)

var_declaration_end(name, init, c) ==
    IF c.res.kind = "Err" THEN c
    ELSE [res |-> ParseOk(Statement_Var(name.res.value, init.res.value)), self |-> c.self]

var_declaration_init(name, init) ==
    IF init.res.kind = "Err" THEN init
    ELSE var_declaration_end(name, init,
             consume(init.self, {"Semicolon"}, "Expected ';' after variable declaration."))

\* Some(self.expression()?)
var_declaration_some(e) ==
    IF e.res.kind = "Err" THEN e ELSE [res |-> ParseOk(Some(e.res.value)), self |-> e.self]

var_declaration_name(name) ==
    IF name.res.kind = "Err" THEN name
    ELSE IF peek_matches(name.self, {"Equal"})
    THEN var_declaration_init(name, var_declaration_some(expression(advance(name.self).self)))
    ELSE var_declaration_init(name, [res |-> ParseOk(None), self |-> name.self])

\* a var_declaration that takes a number for the name
var_declaration_anyname(self) ==
    var_declaration_name(consume(self, {"Identifier", "Number"}, "Expected variable name."))

var_declaration(self) ==
    var_declaration_name(consume(self, {"Identifier"}, "Expected variable name."))

declaration(self) ==
    IF peek_matches(self, {"Var"}) THEN var_declaration(advance(self).self)
    ELSE statement(self)

Parser_next(self) ==
    IF peek_matches(self, {"Eof"}) THEN [res |-> None, self |-> self]
    ELSE LET r == declaration(self) IN [res |-> Some(r.res), self |-> r.self]

(***************************************************************************)
(* The parser as a state machine: a parser is constructed on a token       *)
(* sequence that ends with Eof and next() is called on it again and again. *)
(* The i-th token of a sequence is on line i - 1.                          *)
(***************************************************************************)
Lined(lexemes) == [i \in 1..Len(lexemes) |-> Token(lexemes[i], i - 1)]

TokenAlphabet ==
    {Identifier("a"), Lexeme_Number(<<1, 0>>), Lexeme("Equal"), Lexeme("Plus"),
     Lexeme("Semicolon"), Lexeme("LeftParen"), Lexeme("RightParen"), Lexeme("Minus"),
     Lexeme("Var"), Lexeme("Print")}

\* left-hand sides of an assignment: each is a whole expression without `=`
Lhs ==
    {<<Identifier("a")>>,
     <<Identifier("a"), Lexeme("Plus"), Identifier("b")>>,
     <<Lexeme("LeftParen"), Identifier("a"), Lexeme("RightParen")>>,
     <<Lexeme_Number(<<1, 0>>)>>,
     <<Lexeme("Minus"), Identifier("a")>>,
     <<Identifier("a"), Lexeme("EqualEqual"), Identifier("b")>>}

\* right-hand sides of an assignment: each is a whole expression
Rhs ==
    {<<Lexeme_Number(<<2, 0>>)>>,
     <<Identifier("b")>>,
     <<Identifier("b"), Lexeme("Equal"), Lexeme_Number(<<1, 0>>)>>,
     <<Lexeme("LeftParen"), Lexeme_Number(<<2, 0>>), Lexeme("RightParen")>>,
     <<Lexeme_Number(<<2, 0>>), Lexeme("Plus"), Identifier("b")>>}

Assignments ==
    {l \o <<Lexeme("Equal")>> \o r \o <<Lexeme("Semicolon")>> : l \in Lhs, r \in Rhs}

\* infix operators, one or two of each of the four binary productions
BinaryOperators == {"Minus", "Plus", "Star", "Slash", "Less", "EqualEqual"}

PrefixOperators == {"Minus", "Bang"}

\* `a <o1> b <o2> c;`
Chains ==
    {<<Identifier("a"), Lexeme(o1), Identifier("b"), Lexeme(o2), Identifier("c"),
       Lexeme("Semicolon")>> : o1 \in BinaryOperators, o2 \in BinaryOperators}

\* `<p1> <p2> a;`, `<p> a <o> b;` and `a <o> <p> b;`
Prefixed ==
    {<<Lexeme(p1), Lexeme(p2), Identifier("a"), Lexeme("Semicolon")>> :
        p1 \in PrefixOperators, p2 \in PrefixOperators}
    \cup {<<Lexeme(p), Identifier("a"), Lexeme(o), Identifier("b"), Lexeme("Semicolon")>> :
            p \in PrefixOperators, o \in BinaryOperators}
    \cup {<<Identifier("a"), Lexeme(o), Lexeme(p), Identifier("b"), Lexeme("Semicolon")>> :
            p \in PrefixOperators, o \in BinaryOperators}

\* `true and 5;`, `a or b;`, `a or b and c;`, `a and b == c;`
LogicalInputs ==
    {<<Lexeme("True"), Lexeme("And"), Lexeme_Number(<<5, 0>>), Lexeme("Semicolon")>>,
     <<Identifier("a"), Lexeme("Or"), Identifier("b"), Lexeme("Semicolon")>>,
     <<Identifier("a"), Lexeme("Or"), Identifier("b"), Lexeme("And"), Identifier("c"),
       Lexeme("Semicolon")>>,
     <<Identifier("a"), Lexeme("And"), Identifier("b"), Lexeme("EqualEqual"), Identifier("c"),
       Lexeme("Semicolon")>>}

TokenInputs ==
    {Lined(s \o <<Lexeme("Eof")>>) :
        s \in UNION {[1..n -> TokenAlphabet] : n \in 0..MaxTokens}
               \cup Assignments \cup Chains \cup Prefixed \cup LogicalInputs}

ParseInit ==
    /\ tokens \in TokenInputs
    /\ parser = Parser_new(tokens)
    /\ source = <<>>
    /\ scanner = None
    /\ lexer = None
    /\ pulled = <<>>
    /\ run = None
    /\ op = [name |-> "new"]
    /\ prev = parser
    /\ BackIdle

ParserNext ==
    /\ Nones(pulled) < MaxNones
    /\ Len(pulled) < Len(tokens) + MaxExtra
    /\ LET r == Parser_next(parser)
       IN  /\ parser' = r.self
           /\ pulled' = Append(pulled, r.res)
    /\ op' = [name |-> "next"]
    /\ prev' = parser
    /\ UNCHANGED <<frames, environment, result, out, defined>>
    /\ UNCHANGED <<source, scanner, lexer, tokens, run>>

ParseNext == ParserNext

ParseSpec == ParseInit /\ [][ParseNext]_vars

(***************************************************************************)
(* Value of src/src/expression.rs: truthiness and display form.  f64       *)
(* arithmetic on the pairs <<m, e>> that denote m / 10^e.                  *)
(***************************************************************************)
Value_is_truthy(v) ==
    CASE v.type = "Nil" -> FALSE
      [] v.type = "Bool" -> v.bool
      [] OTHER -> TRUE

Pow10(k) == IF k = 0 THEN 1 ELSE 10 * Pow10(k - 1)

DigitChar(d) == CHOOSE c \in Digits : DigitValue(c) = d

\* the decimal text of a natural number, at least width digits long
u_to_string(n, width) ==
    IF n < 10 /\ width <= 1 THEN DigitChar(n)
    ELSE u_to_string(n \div 10, width - 1) \o DigitChar(n % 10)

\* f64::to_string
f64_to_string(x) ==
    LET m == IF x[1] < 0 THEN 0 - x[1] ELSE x[1]
        sign == IF x[1] < 0 THEN "-" ELSE ""
    IN  IF x[2] = 0 THEN sign \o u_to_string(m, 1)
        ELSE sign \o u_to_string(m \div Pow10(x[2]), 1) \o "."
                  \o u_to_string(m % Pow10(x[2]), x[2])

Value_to_string(v) ==
    CASE v.type = "Nil" -> "nil"
      [] v.type = "Bool" -> IF v.bool THEN "true" ELSE "false"
      [] v.type = "Number" -> f64_to_string(v.number)
      [] v.type = "String" -> QUOTE \o v.string \o QUOTE

f64_neg(x) == <<0 - x[1], x[2]>>

f64_add(x, y) ==
    LET e == IF x[2] > y[2] THEN x[2] ELSE y[2]
    IN  Normal(x[1] * Pow10(e - x[2]) + y[1] * Pow10(e - y[2]), e)

f64_sub(x, y) == f64_add(x, f64_neg(y))

f64_mul(x, y) == Normal(x[1] * y[1], x[2] + y[2])

\* the quotient, where it is a whole number
f64_quot(x, y) ==
    CASE y[1] > 0 /\ (x[1] * Pow10(y[2])) % (y[1] * Pow10(x[2])) = 0 ->
           <<(x[1] * Pow10(y[2])) \div (y[1] * Pow10(x[2])), 0>>

(***************************************************************************)
(* The evaluator that run hands each statement to.  Its state is           *)
(* [frames, environment, out]: the frames of src/src/environment.rs, the   *)
(* current frame and the print sink.                                       *)
(***************************************************************************)
Interpreter_binary(operator, l, r) ==
    LET numbers == l.type = "Number" /\ r.type = "Number"
        k == operator.lexeme.kind
    IN  CASE k = "Minus" /\ numbers -> Ok(Value_Number(f64_sub(l.number, r.number)))
          [] k = "Slash" /\ numbers -> Ok(Value_Number(f64_quot(l.number, r.number)))
          [] k = "Star" /\ numbers -> Ok(Value_Number(f64_mul(l.number, r.number)))
          [] k \in {"Minus", "Slash", "Star"} ->
               RuntimeError(operator.line, "Operand must be a number.")
          [] k = "Plus" /\ numbers -> Ok(Value_Number(f64_add(l.number, r.number)))
          [] k = "Plus" /\ l.type = "String" /\ r.type = "String" ->
               Ok(Value_String(l.string \o r.string))
          [] k = "Plus" ->
               RuntimeError(operator.line, "Operands must be two numbers or two strings.")
          [] OTHER -> RuntimeError(operator.line, "Invalid binary operator.")

Interpreter_unary(operator, v) ==
    CASE operator.lexeme.kind = "Minus" ->
           IF v.type = "Number" THEN Ok(Value_Number(f64_neg(v.number)))
           ELSE RuntimeError(operator.line, "Operand must be a number.")
      [] operator.lexeme.kind = "Bang" -> Ok(Value_Bool(~Value_is_truthy(v)))
      [] OTHER -> RuntimeError(operator.line, "Invalid unary operator.")

Interpreter_evaluate(e, st) ==
    CASE e.kind = "Literal" -> R(Ok(e.literal), st)
      [] e.kind = "Grouping" -> Interpreter_evaluate(e.expression, st)
      [] e.kind = "Unary" ->
           LET v == Interpreter_evaluate(e.expression, st)
           IN  IF IsErr(v.res) THEN v ELSE R(Interpreter_unary(e.operator, v.res.val), v.st)
      [] e.kind = "Binary" ->
           LET l == Interpreter_evaluate(e.left, st)
               r == Interpreter_evaluate(e.right, l.st)
           IN  IF IsErr(l.res) THEN l
               ELSE IF IsErr(r.res) THEN r
               ELSE R(Interpreter_binary(e.operator, l.res.val, r.res.val), r.st)
      [] e.kind = "Variable" -> R(env_get(st.frames, st.environment, e.name), st)
      [] e.kind = "Assign" ->
           LET v == Interpreter_evaluate(e.value, st)
               a == env_assign(v.st.frames, v.st.environment, e.name, v.res.val)
           IN  IF IsErr(v.res) THEN v
               ELSE IF IsErr(a.res) THEN R(a.res, v.st)
               ELSE R(Ok(v.res.val), [v.st EXCEPT !.frames = a.frames])

\* Statement::accept
Interpreter_execute(stmt, st) ==
    CASE stmt.kind = "Expression" ->
           LET v == Interpreter_evaluate(stmt.expression, st)
           IN  IF IsErr(v.res) THEN v ELSE R(Ok(Value_Nil), v.st)
      [] stmt.kind = "Print" ->
           LET v == Interpreter_evaluate(stmt.expression, st)
           IN  IF IsErr(v.res) THEN v
               ELSE R(Ok(Value_Nil),
                      [v.st EXCEPT !.out = Append(@, Value_to_string(v.res.val))])
      [] stmt.kind = "Var" ->
           LET v == IF stmt.initializer = None THEN R(Ok(Value_Nil), st)
                    ELSE Interpreter_evaluate(stmt.initializer[1], st)
           IN  IF IsErr(v.res) THEN v
               ELSE R(Ok(Value_Nil),
                      [v.st EXCEPT !.frames =
                           env_define(v.st.frames, v.st.environment, stmt.name, v.res.val)])

(***************************************************************************)
(* run of src/src/main.rs as a state machine: one step for each item it    *)
(* pulls from the scanner, each item it pulls from the parser and each     *)
(* statement it evaluates.  op.name is the place run is at: "scan",        *)
(* "parse", "execute" or "done"; tokens is scan_results, run holds         *)
(* parse_results, last_value and the number of statements evaluated.       *)
(***************************************************************************)
RunAlphabet == {"1", ";", "+", "-", "#", QUOTE}

\* `var a;a;`, `a;1;` and `var a=1;print a+a;`
RunPrograms ==
    {<<"v", "a", "r", " ", "a", ";", "a", ";">>,
     <<"a", ";", "1", ";">>,
     <<"v", "a", "r", " ", "a", "=", "1", ";", "p", "r", "i", "n", "t", " ", "a", "+", "a", ";">>}

RunSources == UNION {[1..n -> RunAlphabet] : n \in 0..MaxSrc} \cup RunPrograms

RunInit ==
    /\ source \in RunSources
    /\ scanner = Scanner_new(source)
    /\ lexer = None
    /\ tokens = <<>>
    /\ parser = None
    /\ pulled = <<>>
    /\ run = [parse_results |-> <<>>, last_value |-> Value_Nil, executed |-> 0]
    /\ frames = <<EnvironmentData_new(0)>>
    /\ environment = 1
    /\ result = Running
    /\ out = <<>>
    /\ op = [name |-> "scan"]
    /\ prev = scanner
    /\ defined = None

\* an item of Scanner::new(&source).collect::<Result<Vec<_>, _>>()?
RunScan ==
    /\ op.name = "scan"
    /\ LET r == Scanner_next(scanner)
       IN  /\ scanner' = r.self
           /\ pulled' = Append(pulled, r.res)
           /\ IF r.res = None
              THEN /\ op' = [name |-> "parse"]
                   /\ parser' = Parser_new(tokens)
                   /\ UNCHANGED <<tokens, result>>
              ELSE IF r.res[1].kind = "Err"
              THEN /\ op' = [name |-> "done"]
                   /\ result' = r.res[1]
                   /\ UNCHANGED <<tokens, parser>>
              ELSE /\ tokens' = Append(tokens, r.res[1].token)
                   /\ UNCHANGED <<op, parser, result>>
    /\ prev' = scanner
    /\ UNCHANGED <<frames, environment, out, defined, source, lexer, run>>

\* a parse error ends no collect: the item is dropped and the next is pulled
RunParse_skip ==
    /\ op.name = "parse"
    /\ LET r == Parser_next(parser)
       IN  /\ parser' = r.self
           /\ pulled' = Append(pulled, r.res)
           /\ IF r.res = None
              THEN /\ op' = [name |-> "execute"]
                   /\ UNCHANGED <<run, result>>
              ELSE IF r.res[1].kind = "Err"
              THEN UNCHANGED <<op, run, result>>
              ELSE /\ run' = [run EXCEPT !.parse_results = Append(@, r.res[1].value)]
                   /\ UNCHANGED <<op, result>>
    /\ prev' = parser
    /\ UNCHANGED <<frames, environment, out, defined, source, scanner, lexer, tokens>>

\* an item of Parser::new(&scan_results).collect::<Result<Vec<_>, _>>()?
RunParse ==
    /\ op.name = "parse"
    /\ LET r == Parser_next(parser)
       IN  /\ parser' = r.self
           /\ pulled' = Append(pulled, r.res)
           /\ IF r.res = None
              THEN /\ op' = [name |-> "execute"]
                   /\ UNCHANGED <<run, result>>
              ELSE IF r.res[1].kind = "Err"
              THEN /\ op' = [name |-> "done"]
                   /\ result' = r.res[1]
                   /\ UNCHANGED run
              ELSE /\ run' = [run EXCEPT !.parse_results = Append(@, r.res[1].value)]
                   /\ UNCHANGED <<op, result>>
    /\ prev' = parser
    /\ UNCHANGED <<frames, environment, out, defined, source, scanner, lexer, tokens>>

\* an iteration of `for expression in parse_results`, or Ok(last_value)
RunExecute ==
    /\ op.name = "execute"
    /\ IF run.executed = Len(run.parse_results)
       THEN /\ op' = [name |-> "done"]
            /\ result' = Ok(run.last_value)
            /\ UNCHANGED <<frames, environment, out, run>>
       ELSE LET r == Interpreter_execute(run.parse_results[run.executed + 1],
                                         [frames |-> frames, environment |-> environment,
                                          out |-> out])
            IN  /\ frames' = r.st.frames
                /\ out' = r.st.out
                /\ run' = [run EXCEPT !.executed = @ + 1,
                                      !.last_value = IF IsErr(r.res) THEN @ ELSE r.res.val]
                /\ IF IsErr(r.res)
                   THEN op' = [name |-> "done"] /\ result' = r.res
                   ELSE UNCHANGED <<op, result>>
                /\ UNCHANGED environment
    /\ UNCHANGED <<prev, defined, source, scanner, lexer, tokens, parser, pulled>>

RunNext == RunScan \/ RunParse \/ RunExecute

RunSpec == RunInit /\ [][RunNext]_vars

(***************************************************************************)
(* The chain of a frame: the frame, its enclosing frame, ... up to a root. *)
(***************************************************************************)
Chain(fr, e) ==
    IF e = 0 THEN <<>> ELSE <<e>> \o Chain(fr, fr[e].enclosing)

\* positions of the chain of e whose frame binds name
Holders(fr, e, name) ==
    {i \in 1..Len(Chain(fr, e)) : fr[Chain(fr, e)[i]].variables[name] # NoEntry}

Min(S) == CHOOSE x \in S : \A y \in S : x <= y

\* the nearest frame on the chain of e that binds name (Holders not empty)
Nearest(fr, e, name) == Chain(fr, e)[Min(Holders(fr, e, name))]

(***************************************************************************)
(* What the claims are stated with.                                        *)
(***************************************************************************)
\* the interpreter state before the last call
Pre == [frames |-> prev.frames, environment |-> prev.environment, out |-> <<>>]

\* Truthiness of a value: Nil and Bool(false) are falsy, everything else truthy.
Truthy(v) == v # Value_Null /\ v # Value_BOOLEAN(FALSE)

Bound(fr, e, name) == fr[e].variables[name] # NoEntry

\* A flat block: literal definitions, literal assignments and prints only.
FlatStmt(s) ==
    \/ s.kind = "VariableDef" /\ s.expr_opt # None /\ s.expr_opt[1].kind = "Literal"
    \/ s.kind = "Expr" /\ s.expr.kind = "Assign" /\ s.expr.expr.kind = "Literal"
    \/ s.kind = "Print"

Flat(stmts) == \A i \in 1..Len(stmts) : FlatStmt(stmts[i])

\* positions of a flat block that assign to name before the block defines name
OuterAssigns(stmts, name) ==
    {i \in 1..Len(stmts) :
        /\ stmts[i].kind = "Expr"
        /\ stmts[i].expr.name = name
        /\ \A j \in 1..(i - 1) :
              ~(stmts[j].kind = "VariableDef" /\ stmts[j].ident = name)}

Max(S) == CHOOSE x \in S : \A y \in S : x >= y

\* the frames a flat block that completes leaves, for one name
AfterBlock(fr, orig, e, stmts, name) ==
    IF OuterAssigns(stmts, name) = {} THEN fr
    ELSE [fr EXCEPT ![Nearest(orig, e, name)].variables[name] =
                        stmts[Max(OuterAssigns(stmts, name))].expr.expr.val]

\* a program run that stops at the first statement that raises an error
StopAtFirstError(stmts, st, res) ==
    IF stmts = <<>> THEN R(res, st)
    ELSE LET r == execute(Head(stmts), st)
         IN  IF ~IsOk(r.res) THEN r
             ELSE StopAtFirstError(Tail(stmts), r.st, r.res)

(***************************************************************************)
(* Claims about the evaluator (specification Spec).                        *)
(***************************************************************************)

\* C1: when a statement inside a Block raises a runtime error, the child
\* frame is popped before the error propagates: after the failed execute the
\* current environment is the frame that was current before the block.
C1_BlockErrorPopsFrame ==
    (op.name = "execute" /\ op.stmt.kind = "Block" /\ IsErr(result))
        => environment = prev.environment

\* C2: a While stops as soon as its condition or its body raises a runtime
\* error, and that error is its result; otherwise it stops when the condition
\* evaluates to a falsy value.
C2_WhileStopsOnError ==
    (op.name = "execute" /\ op.stmt.kind = "While") =>
        LET c == evaluate(op.stmt.condition, Pre)
            b == execute(op.stmt.body, c.st)
        IN  /\ IsErr(c.res) => result = c.res
            /\ (IsOk(c.res) /\ ~Truthy(c.res.val)) =>
                  (result = Ok(Value_Null) /\ frames = c.st.frames)
            /\ (IsOk(c.res) /\ Truthy(c.res.val) /\ IsErr(b.res)) => result = b.res

\* C3: block scope.  After a block has completed the current frame is the one
\* that was current before it; a variable defined inside the block (also one
\* shadowing an outer name) is not bound in any enclosing frame and leaves the
\* outer binding unchanged; an assignment inside the block to a name the block
\* has not defined changes the binding of the nearest outer frame.
C3_BlockScope ==
    (op.name = "execute" /\ op.stmt.kind = "Block" /\ IsOk(result)) =>
        /\ environment = prev.environment
        /\ result = Ok(Value_Null)
        /\ Flat(op.stmt.stmts) =>
              frames = AfterBlock(
                         AfterBlock(prev.frames, prev.frames, prev.environment,
                                    op.stmt.stmts, "a"),
                         prev.frames, prev.environment, op.stmt.stmts, "b")

\* a block that defines a, shadowing an outer a, and assigns to the outer b
C3_Witness ==
    /\ op.name = "execute" /\ op.stmt.kind = "Block" /\ IsOk(result)
    /\ Len(op.stmt.stmts) = 2
    /\ op.stmt.stmts[1] = Stmt_VariableDef("a", Some(Num(2)))
    /\ op.stmt.stmts[2] = Stmt_Expr(Expr_Assign("b", Bool(FALSE)))
    /\ prev.frames[prev.environment].variables["a"] = Value_NUMBER(1)
    /\ prev.frames[prev.environment].variables["b"] = Value_BOOLEAN(TRUE)
    /\ frames[environment].variables["a"] = Value_NUMBER(1)
    /\ frames[environment].variables["b"] = Value_BOOLEAN(FALSE)

\* C4: logical operators short-circuit and return an operand value.  For
\* `l or r`, a truthy l is the result and r is not evaluated, otherwise the
\* result is r's; for `l and r`, a falsy l is the result and r is not
\* evaluated, otherwise the result is r's.
C4_ShortCircuit ==
    (op.name = "evaluate" /\ op.expr.kind = "Logical") =>
        LET l == evaluate(op.expr.left, Pre)
            r == evaluate(op.expr.right, l.st)
            short == IF op.expr.operator = "OR" THEN Truthy(l.res.val)
                     ELSE ~Truthy(l.res.val)
        IN  IsOk(l.res) =>
              IF short
              THEN result = Ok(l.res.val) /\ frames = l.st.frames
              ELSE result = r.res /\ frames = r.st.frames

\* `true or (a = 2)` and `false and (a = 2)` with a = 1 leave a = 1
C4_Witness ==
    /\ op.name = "evaluate" /\ op.expr.kind = "Logical"
    /\ op.expr.right = Expr_Assign("a", Num(2))
    /\ op.expr.left \in {Bool(TRUE), Bool(FALSE)}
    /\ (op.expr.operator = "OR") = (op.expr.left = Bool(TRUE))
    /\ prev.frames[prev.environment].variables["a"] = Value_NUMBER(1)
    /\ frames[environment].variables["a"] = Value_NUMBER(1)
    /\ result = Ok(op.expr.left.val)

\* C5: if a statement of a program raises a runtime error, the run reports
\* that error and no later statement of the program is executed.
C5_RunStopsAtFirstError ==
    op.name = "start" =>
        LET r == StopAtFirstError(op.stmts, Pre, Ok(Value_Null))
        IN  r.res # Running =>
              /\ result = r.res
              /\ frames = r.st.frames
              /\ environment = r.st.environment
              /\ out = r.st.out

\* C6: an If branches on truthiness: a truthy condition runs the then-branch,
\* a falsy one the else-branch if present, and a runtime error in the
\* condition is the result of the If.
C6_IfTruthiness ==
    (op.name = "execute" /\ op.stmt.kind = "If") =>
        LET c == evaluate(op.stmt.condition, Pre)
            t == execute(op.stmt.then_branch, c.st)
        IN  /\ IsErr(c.res) => result = c.res
            /\ (IsOk(c.res) /\ Truthy(c.res.val)) =>
                  (result = t.res /\ frames = t.st.frames /\ out = t.st.out)
            /\ (IsOk(c.res) /\ ~Truthy(c.res.val) /\ op.stmt.else_branch # None) =>
                  LET e == execute(op.stmt.else_branch[1], c.st)
                  IN  result = e.res /\ frames = e.st.frames /\ out = e.st.out

C8_AssignNearest ==
    op.name \in {"assign", "env_assign"} =>
        IF Holders(prev.frames, op.env, op.ident) # {}
        THEN /\ IsOk(result)
             /\ frames = [prev.frames EXCEPT
                            ![Nearest(prev.frames, op.env, op.ident)].variables[op.ident] =
                                op.value]
        ELSE /\ IsErr(result)
             /\ frames = prev.frames

\* assign on a frame that does not bind the name changes the enclosing frame
C8_Witness ==
    /\ op.name = "assign"
    /\ ~Bound(prev.frames, op.env, op.ident)
    /\ prev.frames[op.env].enclosing # 0
    /\ Bound(prev.frames, prev.frames[op.env].enclosing, op.ident)
    /\ frames[prev.frames[op.env].enclosing].variables[op.ident] = op.value
    /\ frames # prev.frames
    /\ ~Bound(frames, op.env, op.ident)

\* C9: lookup(name) returns the value bound in the innermost frame of the
\* chain that contains name, changes no frame, and returns an error exactly
\* when no frame of the chain contains name.
C9_LookupInnermost ==
    op.name \in {"retrieve", "env_get"} =>
        /\ frames = prev.frames
        /\ IF Holders(frames, op.env, op.ident) # {}
           THEN result = Ok(frames[Nearest(frames, op.env, op.ident)].variables[op.ident])
           ELSE IsErr(result)

\* a lookup through a frame that does not bind the name, and a shadowed one
C9_Witness ==
    /\ op.name = "retrieve"
    /\ frames[op.env].enclosing # 0
    /\ Bound(frames, frames[op.env].enclosing, op.ident)
    /\ \/ ~Bound(frames, op.env, op.ident)
       \/ frames[op.env].variables[op.ident] #
             frames[frames[op.env].enclosing].variables[op.ident]
    /\ IsOk(result)

\* C10: define(name, value) never fails and inserts or overwrites the binding
\* of name in the current frame only: no ancestor frame and no other name is
\* changed.
C10_DefineCurrentOnly ==
    op.name \in {"define", "env_define"} =>
        /\ IsOk(result)
        /\ frames = [prev.frames EXCEPT ![op.env].variables[op.ident] = op.value]

\* define in a child frame of a name its parent binds to another value
C10_Witness ==
    /\ op.name = "env_define"
    /\ frames[op.env].enclosing # 0
    /\ Bound(prev.frames, frames[op.env].enclosing, op.ident)
    /\ frames[frames[op.env].enclosing].variables[op.ident] # op.value
    /\ frames[op.env].variables[op.ident] = op.value

\* C11: REPL persistence.  When an execute call on an interpreter has defined
\* a variable at top level (a `var` statement with an initializer that
\* evaluated to a value), the next call on the same interpreter starts with
\* that variable bound to that value on the chain of the current frame, and
\* a next execute that reads or prints the variable returns that value.
C11_ReplPersistence ==
    (op.name \in {"execute", "evaluate", "start"} /\ defined # None) =>
        LET d == defined[1]
        IN  /\ retrieve(prev.frames, prev.environment, d.ident) = Ok(d.value)
            /\ (op.name = "execute" /\ op.stmt = Stmt_Expr(Expr_Variable(d.ident))) =>
                    (result = Ok(d.value) /\ out = <<>>)
            /\ (op.name = "execute" /\ op.stmt = Stmt_Print(Some(Expr_Variable(d.ident)))) =>
                    (result = Ok(d.value) /\ out = <<d.value>>)

\* `var a = 2;` and then `print(a);` on the same interpreter prints 2
C11_Witness ==
    /\ op.name = "execute"
    /\ op.stmt = Stmt_Print(Some(Expr_Variable("a")))
    /\ defined = Some([ident |-> "a", value |-> Value_NUMBER(2)])
    /\ result = Ok(Value_NUMBER(2))
    /\ out = <<Value_NUMBER(2)>>

(***************************************************************************)
(* What the claims about a scan are stated with.                           *)
(***************************************************************************)
\* an item next() returned is a token (of either scanner)
IsToken(it) == it # None /\ ("token" \in DOMAIN it[1] \/ "lexeme" \in DOMAIN it[1])

ItemToken(it) == IF "token" \in DOMAIN it[1] THEN it[1].token ELSE it[1]

IsEof(it) == IsToken(it) /\ ItemToken(it).lexeme.kind \in {"Eof", "EOF"}

IsScanError(it, type) ==
    it # None /\ "error" \in DOMAIN it[1] /\ it[1].error.type = type

Last == pulled[Len(pulled)]

\* next() has returned None
Ended == pulled # <<>> /\ Last = None

\* how many characters of the source the scanner has gone past
Consumed ==
    IF scanner # None THEN Len(source) - Len(scanner.chars)
    ELSE Min({lexer.cursor, Len(source)})

Newlines(cs) == Cardinality({i \in 1..Len(cs) : cs[i] = NL})

\* the lexemes of the tokens among items, Whitespace tokens left out
Lexemes(items) ==
    LET toks == SelectSeq(items, LAMBDA it : IsToken(Some(it))
                                             /\ ItemToken(Some(it)).lexeme.kind # "Whitespace")
    IN  [i \in 1..Len(toks) |-> ItemToken(Some(toks[i])).lexeme]

\* the items pulled, up to the first None
Items == LET some == SelectSeq(pulled, LAMBDA it : it # None)
         IN  [i \in 1..Len(some) |-> some[i][1]]

\* a whole scan of src by the scanner of this behaviour
Collect(src) ==
    IF scanner # None THEN Scanner_collect(Scanner_new(src))
    ELSE lexer_Scanner_collect(lexer_Scanner_new(src))

\* a source without its comment text: what is between `//` and the end of
\* the line is taken out, the newline stays (for a source without strings)
Strip(cs) ==
    IF cs = <<>> THEN <<>>
    ELSE IF Len(cs) >= 2 /\ cs[1] = "/" /\ cs[2] = "/"
    THEN LET k == Prefix(cs, Chars \ {NL}) IN Strip(SubSeq(cs, k + 1, Len(cs)))
    ELSE <<Head(cs)>> \o Strip(Tail(cs))

\* a character no lexeme starts with
Unexpected(c) == c \notin Digits \cup Letters \cup Punctuation \cup Blanks \cup {"_", QUOTE}

\* a source with each unexpected character replaced by a space
Blanked(cs) == [i \in 1..Len(cs) |-> IF Unexpected(cs[i]) THEN " " ELSE cs[i]]

\* the numbers and dots of a text of digits and dots: a number takes a dot
\* only when a digit follows the dot, and one dot at most
NumberTokens(cs) ==
    IF cs = <<>> THEN <<>>
    ELSE IF cs[1] = "." THEN <<<<"Dot">>>> \o NumberTokens(Tail(cs))
    ELSE LET k == Prefix(cs, Digits)
             fraction == k + 2 <= Len(cs) /\ cs[k + 1] = "." /\ cs[k + 2] \in Digits
             m == IF fraction THEN k + 1 + Prefix(SubSeq(cs, k + 2, Len(cs)), Digits) ELSE k
         IN  <<<<"Number", parse_f64(SubSeq(cs, 1, m))[1]>>>>
             \o NumberTokens(SubSeq(cs, m + 1, Len(cs)))

\* what was pulled, as numbers and dots; the final Eof is left out
Abstract ==
    LET its == SelectSeq(pulled, LAMBDA it : it # None /\ ~IsEof(it))
    IN  [i \in 1..Len(its) |->
            IF ~IsToken(its[i]) THEN <<"Panic">>
            ELSE IF ItemToken(its[i]).lexeme.kind \in {"Number", "NUMBER"}
            THEN <<"Number", ItemToken(its[i]).lexeme.number>>
            ELSE <<ItemToken(its[i]).lexeme.kind>>]

\* C12: the scanner's output contains exactly one Eof token, it is the last
\* item produced, and every pull after it returns None: next() returns None
\* only after the Eof token, and after the Eof token nothing but None.
C12_OneEofLast ==
    /\ \A i \in 1..Len(pulled) :
          pulled[i] = None => (i > 1 /\ (pulled[i - 1] = None \/ IsEof(pulled[i - 1])))
    /\ \A i \in 1..Len(pulled) :
          IsEof(pulled[i]) => \A j \in (i + 1)..Len(pulled) : pulled[j] = None

\* C13: the tokens of a scan carry non-decreasing line numbers, from line 0.
C13_LinesMonotone ==
    \A i \in 1..Len(pulled) :
        IsToken(pulled[i]) =>
            /\ ItemToken(pulled[i]).line >= 0
            /\ \A j \in (i + 1)..Len(pulled) :
                  IsToken(pulled[j]) => ItemToken(pulled[i]).line <= ItemToken(pulled[j]).line

\* a scan by scanner.rs gave a token and later a token on a later line
C13_Witness ==
    /\ scanner # None
    /\ op.name = "next"
    /\ \E i \in 1..Len(pulled) : \E j \in (i + 1)..Len(pulled) :
          /\ IsToken(pulled[i]) /\ IsToken(pulled[j])
          /\ ItemToken(pulled[i]).line < ItemToken(pulled[j]).line

\* C14: the newline that ends a `//` comment increments the line counter: a
\* token that follows a comment line carries the number of newlines before
\* it in the source (sources without strings).
C14_CommentNewlineCounts ==
    (/\ op.name = "next"
     /\ IsToken(Last)
     /\ \A i \in 1..Len(source) : source[i] # QUOTE
     /\ \E i \in 1..Consumed : \E j \in (i + 2)..Consumed :
           source[i] = "/" /\ source[i + 1] = "/" /\ source[j] = NL)
    => ItemToken(Last).line = Newlines(SubSeq(source, 1, Consumed))

\* C15: no character between `//` and the end of its line becomes a token
\* or part of one: the tokens of a scan, Whitespace aside, are those of the
\* source with the comment text removed (sources without strings).
C15_CommentTextNeverTokens ==
    (Ended /\ \A i \in 1..Len(source) : source[i] # QUOTE)
    => Lexemes(Items) = Lexemes(Collect(Strip(source)))

\* C16: a string literal whose closing `"` is missing before end of input
\* gives an UnterminatedString error and no String token, and the scan ends
\* (sources with one `"` and no comment).
C16_UnterminatedString ==
    (/\ Cardinality({i \in 1..Len(source) : source[i] = QUOTE}) = 1
     /\ \A i \in 1..Len(source) : source[i] # "/")
    => /\ \A i \in 1..Len(pulled) :
             IsToken(pulled[i]) => ItemToken(pulled[i]).lexeme.kind \notin {"String", "STRING"}
       /\ Ended => \E i \in 1..Len(pulled) : IsScanError(pulled[i], "UnterminatedString")
       /\ Len(Items) <= Len(source) + 1

\* C17: an unexpected character gives an UnexpectedCharacter error for that
\* character at the current line, only that character is consumed with it,
\* and the scan goes on: the scanner is not done, and the tokens of the
\* whole scan are those of the source with a space in the place of each
\* unexpected character, the final Eof included.
C17_UnexpectedCharacter ==
    /\ (op.name = "next" /\ IsScanError(Last, "UnexpectedCharacter")) =>
          LET k == Len(prev.chars) - Len(scanner.chars)
          IN  /\ k >= 1
              /\ prev.chars[k] = Last[1].error.c
              /\ Unexpected(Last[1].error.c)
              /\ scanner.chars = SubSeq(prev.chars, k + 1, Len(prev.chars))
              /\ Last[1].line = scanner.line
              /\ ~scanner.done
    /\ (Ended /\ \A i \in 1..Len(source) : source[i] # QUOTE) =>
          /\ SelectSeq(Items, LAMBDA it : it.kind = "Ok")
                = Scanner_collect(Scanner_new(Blanked(source)))
          /\ \E i \in 1..Len(pulled) : IsEof(pulled[i])

\* `#a`: the error for `#`, then the identifier, then Eof, then None
C17_Witness ==
    /\ scanner # None
    /\ Ended
    /\ Len(pulled) >= 4
    /\ IsScanError(pulled[1], "UnexpectedCharacter")
    /\ pulled[1][1].error.c = "#"
    /\ IsToken(pulled[2]) /\ ItemToken(pulled[2]).lexeme = Identifier("a")
    /\ IsEof(pulled[3])

\* C18: a number token takes a `.` only when a digit follows it directly,
\* and one `.` at most: `1.2` is Number(1.2), `1.` is Number(1) and Dot,
\* `1.2.3` is Number(1.2), Dot, Number(3).
C18_NumberDot ==
    (/\ pulled # <<>>
     /\ Last = None \/ Last = Panic
     /\ source # <<>>
     /\ source[1] \in Digits
     /\ \A i \in 1..Len(source) : source[i] \in Digits \cup {"."})
    => /\ Abstract = NumberTokens(source)
       /\ source = <<"1", ".", "2">> => Abstract = <<<<"Number", <<12, 1>>>>>>
       /\ source = <<"1", ".">> => Abstract = <<<<"Number", <<1, 0>>>>, <<"Dot">>>>
       /\ source = <<"1", ".", "2", ".", "3">> =>
             Abstract = <<<<"Number", <<12, 1>>>>, <<"Dot">>, <<"Number", <<3, 0>>>>>>

\* C19: for a token sequence that ends with a single Eof token, pulling the
\* parser yields finitely many items and then None, also after a parse
\* error: the Eof token is never taken out of the parser, every item comes
\* with a token before the Eof consumed (so at most Len(tokens) - 1 items
\* are yielded), and a pull on a parser that is at the Eof returns None.
C19_StreamTerminatesAtEof ==
    /\ parser.tokens # <<>>
    /\ \A i \in 1..Len(pulled) : pulled[i] # None => i < Len(tokens)
    /\ (op.name = "next" /\ Len(prev.tokens) <= 1) => Last = None

Level(kind) ==
    CASE kind \in {"Slash", "Star"} -> 4
      [] kind \in {"Minus", "Plus"} -> 3
      [] kind \in {"Greater", "GreaterEqual", "Less", "LessEqual"} -> 2
      [] kind \in {"BangEqual", "EqualEqual"} -> 1

\* the tokens are the given lexemes and Eof, and the first pull is made
Parsed(lexemes) == tokens = Lined(lexemes \o <<Lexeme("Eof")>>) /\ pulled # <<>>

FirstIs(expr) == pulled[1] = Some(ParseOk(Statement_Expression(expr)))

\* C21: `a o1 b o2 c;` parses as Binary(Binary(a,o1,b),o2,c) when o1 is of
\* the same or a higher level than o2 and as Binary(a,o1,Binary(b,o2,c)) when
\* o2 is of a higher level; `p1 p2 a;` parses as Unary(p1,Unary(p2,a)); and
\* a prefix operator takes only the operand next to it: `p a o b;` parses
\* as Binary(Unary(p,a),o,b) and `a o p b;` as Binary(a,o,Unary(p,b)).
C21_Precedence ==
    LET V(i) == Expression_Variable(tokens[i])
    IN  /\ \A o1 \in BinaryOperators, o2 \in BinaryOperators :
              Parsed(<<Identifier("a"), Lexeme(o1), Identifier("b"), Lexeme(o2),
                       Identifier("c"), Lexeme("Semicolon")>>)
              => FirstIs(IF Level(o1) >= Level(o2)
                         THEN Expression_Binary(Expression_Binary(V(1), tokens[2], V(3)),
                                                tokens[4], V(5))
                         ELSE Expression_Binary(V(1), tokens[2],
                                                Expression_Binary(V(3), tokens[4], V(5))))
        /\ \A p1 \in PrefixOperators, p2 \in PrefixOperators :
              Parsed(<<Lexeme(p1), Lexeme(p2), Identifier("a"), Lexeme("Semicolon")>>)
              => FirstIs(Expression_Unary(tokens[1], Expression_Unary(tokens[2], V(3))))
        /\ \A p \in PrefixOperators, o \in BinaryOperators :
              /\ Parsed(<<Lexeme(p), Identifier("a"), Lexeme(o), Identifier("b"),
                          Lexeme("Semicolon")>>)
                 => FirstIs(Expression_Binary(Expression_Unary(tokens[1], V(2)), tokens[3], V(4)))
              /\ Parsed(<<Identifier("a"), Lexeme(o), Lexeme(p), Identifier("b"),
                          Lexeme("Semicolon")>>)
                 => FirstIs(Expression_Binary(V(1), tokens[2], Expression_Unary(tokens[3], V(4))))

\* `a - b - c;` has been pulled as Binary(Binary(a,-,b),-,c)
C21_Witness ==
    /\ Parsed(<<Identifier("a"), Lexeme("Minus"), Identifier("b"), Lexeme("Minus"),
                Identifier("c"), Lexeme("Semicolon")>>)
    /\ op.name = "next"
    /\ FirstIs(Expression_Binary(
                   Expression_Binary(Expression_Variable(Token(Identifier("a"), 0)),
                                     Token(Lexeme("Minus"), 1),
                                     Expression_Variable(Token(Identifier("b"), 2))),
                   Token(Lexeme("Minus"), 3),
                   Expression_Variable(Token(Identifier("c"), 4))))

\* the Logical node of the specification's AST
Logical(left, operator, right) ==
    [kind |-> "Logical", left |-> left, operator |-> operator, right |-> right]

\* C22: `l and r` and `l or r` parse into Logical nodes, `or` looser than
\* `and` and both looser than equality, so `true and 5;`, `a or b;`,
\* `a or b and c;` and `a and b == c;` parse successfully into
\* Logical(true,and,5), Logical(a,or,b), Logical(a,or,Logical(b,and,c)) and
\* Logical(a,and,Binary(b,==,c)); every other infix operator gives a Binary
\* node.
C22_LogicalNodes ==
    LET V(i) == Expression_Variable(tokens[i])
    IN  /\ Parsed(<<Lexeme("True"), Lexeme("And"), Lexeme_Number(<<5, 0>>), Lexeme("Semicolon")>>)
           => FirstIs(Logical(Expression_Literal(Value_Bool(TRUE)), tokens[2],
                              Expression_Literal(Value_Number(<<5, 0>>))))
        /\ Parsed(<<Identifier("a"), Lexeme("Or"), Identifier("b"), Lexeme("Semicolon")>>)
           => FirstIs(Logical(V(1), tokens[2], V(3)))
        /\ Parsed(<<Identifier("a"), Lexeme("Or"), Identifier("b"), Lexeme("And"),
                    Identifier("c"), Lexeme("Semicolon")>>)
           => FirstIs(Logical(V(1), tokens[2], Logical(V(3), tokens[4], V(5))))
        /\ Parsed(<<Identifier("a"), Lexeme("And"), Identifier("b"), Lexeme("EqualEqual"),
                    Identifier("c"), Lexeme("Semicolon")>>)
           => FirstIs(Logical(V(1), tokens[2], Expression_Binary(V(3), tokens[4], V(5))))
        /\ \A o \in BinaryOperators, p \in PrefixOperators :
              Parsed(<<Identifier("a"), Lexeme(o), Lexeme(p), Identifier("b"),
                       Lexeme("Semicolon")>>)
              => pulled[1][1].value.expression.kind = "Binary"

\* both operands of the Binary expression evaluated, the left one first
LeftOperand == evaluate(op.expr.left, Pre)
RightOperand == evaluate(op.expr.right, LeftOperand.st)

BothAre(type) ==
    /\ IsOk(LeftOperand.res) /\ LeftOperand.res.val.t = type
    /\ IsOk(RightOperand.res) /\ RightOperand.res.val.t = type

\* C23: `l + r` is the sum when l and r evaluate to numbers, the
\* concatenation of l's and r's strings when both evaluate to strings, and a
\* runtime error for any other two values; `-`, `*` and `/` are a runtime
\* error unless both operands evaluate to numbers.
C23_PlusAddsOrConcatenates ==
    (/\ op.name = "evaluate" /\ op.expr.kind = "Binary"
     /\ IsOk(LeftOperand.res) /\ IsOk(RightOperand.res))
    => /\ op.expr.operator = "Plus" =>
            CASE BothAre("NUMBER") ->
                   result = Ok(Value_NUMBER(LeftOperand.res.val.n + RightOperand.res.val.n))
              [] BothAre("STRING") ->
                   result = Ok(Value_STRING(LeftOperand.res.val.s \o RightOperand.res.val.s))
              [] OTHER -> IsErr(result)
       /\ (op.expr.operator \in {"Minus", "Star", "Slash"} /\ ~BothAre("NUMBER"))
            => IsErr(result)

\* C24: `!e` evaluates without error to Bool(not truthy(v)) for any value v
\* of e; `-e` is the negation of a number and a runtime error for any other
\* value.
C24_BangNegatesTruthiness ==
    (op.name = "evaluate" /\ op.expr.kind = "Unary")
    => LET v == evaluate(op.expr.right, Pre)
       IN  IsOk(v.res) =>
             /\ op.expr.operator = "Bang" => result = Ok(Value_BOOLEAN(~Truthy(v.res.val)))
             /\ op.expr.operator = "Minus" =>
                  IF v.res.val.t = "NUMBER" THEN result = Ok(Value_NUMBER(0 - v.res.val.n))
                  ELSE IsErr(result)

\* C27: when the left operand of `and` or `or` raises a runtime error, the
\* logical expression results in that error and its right operand is not
\* evaluated (the state is the one the left operand left).
C27_LogicalLeftError ==
    (op.name = "evaluate" /\ op.expr.kind = "Logical")
    => LET l == evaluate(op.expr.left, Pre)
       IN  IsErr(l.res) => result = l.res /\ frames = l.st.frames

\* C28: a Binary expression evaluates its left operand, then its right
\* operand, and only then checks the operand types: when both operands
\* evaluate without error, the state afterwards is the one the right operand
\* left, also when the operator raises a type error.
C28_BinaryOperandsFirst ==
    (/\ op.name = "evaluate" /\ op.expr.kind = "Binary"
     /\ IsOk(LeftOperand.res) /\ IsOk(RightOperand.res))
    => frames = RightOperand.st.frames

\* C25: no source makes a pull panic: whatever the characters are, every
\* item pulled is a token or an error value.
C25_NoPanic == \A i \in 1..Len(pulled) : pulled[i] # Panic

\* the messages of the terminals a statement expects
TerminalMessages ==
    {"Expected variable name.", "Expected ';' after variable declaration.",
     "Expected ';' after value.", "Expected ')' after expression."}

\* the items are UnexpectedToken errors for a missing terminal
MissingTerminal(it) ==
    /\ it # None /\ it[1].kind = "Err" /\ it[1].error = "UnexpectedToken"
    /\ it[1].message \in TerminalMessages

\* the token sequence starts with the given kinds of lexeme
Starts(kinds) ==
    /\ Len(tokens) >= Len(kinds)
    /\ \A i \in 1..Len(kinds) : tokens[i].lexeme.kind = kinds[i]

\* the kinds of token that neither continue an expression nor end a statement
Strays == {"Identifier", "Number", "LeftParen", "Var", "Print", "Eof"}

\* C26: a missing terminal gives UnexpectedToken with the token found in
\* its place and the message of the expectation: the name after `var`, the
\* `;` after a var, print or expression statement, the `)` of a grouping;
\* the parser is left at the token found; and when that token is the Eof,
\* the next pull returns None.
C26_MissingTerminal ==
    /\ pulled # <<>> =>
         /\ \A k \in (Strays \ {"Identifier"}) \cup {"Semicolon", "Equal"} :
               Starts(<<"Var", k>>)
               => pulled[1] = Some(UnexpectedToken(tokens[2], "Expected variable name."))
         /\ \A k \in Strays \cup {"RightParen"} :
               /\ Starts(<<"Var", "Identifier", k>>)
                  => pulled[1] = Some(UnexpectedToken(tokens[3],
                                          "Expected ';' after variable declaration."))
               /\ Starts(<<"Print", "Identifier", k>>)
                  => pulled[1] = Some(UnexpectedToken(tokens[3], "Expected ';' after value."))
               /\ Starts(<<"Identifier", k>>)
                  => pulled[1] = Some(UnexpectedToken(tokens[2], "Expected ';' after value."))
         /\ \A k \in Strays \cup {"Semicolon"} :
               Starts(<<"LeftParen", "Identifier", k>>)
               => pulled[1] = Some(UnexpectedToken(tokens[3], "Expected ')' after expression."))
    /\ (op.name = "next" /\ MissingTerminal(Last))
        => parser.tokens # <<>> /\ Head(parser.tokens) = Last[1].token
    /\ (/\ op.name = "next" /\ Len(pulled) >= 2
        /\ MissingTerminal(pulled[Len(pulled) - 1])
        /\ pulled[Len(pulled) - 1][1].token.lexeme.kind = "Eof")
        => Last = None

\* `var a` without `;`: UnexpectedToken at the Eof, then None
C26_Witness ==
    /\ tokens = Lined(<<Lexeme("Var"), Identifier("a"), Lexeme("Eof")>>)
    /\ pulled = <<Some(UnexpectedToken(Token(Lexeme("Eof"), 2),
                                       "Expected ';' after variable declaration.")),
                  None>>

\* every Variable and every Assign target of the expression holds a token
\* whose lexeme is an Identifier
NamesAreIdentifiers(e) ==
    CASE e.kind = "Variable" -> e.name.lexeme.kind = "Identifier"
      [] e.kind = "Assign" -> e.name.lexeme.kind = "Identifier" /\ NamesAreIdentifiers(e.value)
      [] e.kind = "Binary" -> NamesAreIdentifiers(e.left) /\ NamesAreIdentifiers(e.right)
      [] e.kind \in {"Grouping", "Unary"} -> NamesAreIdentifiers(e.expression)
      [] e.kind = "Literal" -> TRUE

\* C29: in every statement the parser yields, each Variable expression,
\* each Assign target and the name of a Var statement hold a token whose
\* lexeme is an Identifier.
C29_NamesAreIdentifiers ==
    \A i \in 1..Len(pulled) :
        (pulled[i] # None /\ pulled[i][1].kind = "Ok")
        => LET stmt == pulled[i][1].value
           IN  IF stmt.kind = "Var"
               THEN /\ stmt.name.lexeme.kind = "Identifier"
                    /\ stmt.initializer # None => NamesAreIdentifiers(stmt.initializer[1])
               ELSE NamesAreIdentifiers(stmt.expression)

\* `a = b;` and `var a;` have been parsed: an Assign to a holding a Variable
\* b, a Var statement named a
C29_Witness ==
    \/ /\ Parsed(<<Identifier("a"), Lexeme("Equal"), Identifier("b"), Lexeme("Semicolon")>>)
       /\ FirstIs(Expression_Assign(Token(Identifier("a"), 0),
                                    Expression_Variable(Token(Identifier("b"), 2))))
    \/ /\ Parsed(<<Lexeme("Var"), Identifier("a"), Lexeme("Semicolon")>>)
       /\ pulled[1] = Some(ParseOk(Statement_Var(Token(Identifier("a"), 1), None)))

\* every item the scanner yields for the source, errors included
ScanItems == Scanner_collect(Scanner_new(source))

\* the items a parser yields in at most fuel pulls, errors included
ParseItems(self, fuel) ==
    LET r == Parser_next(self)
    IN  IF fuel = 0 \/ r.res = None THEN <<>>
        ELSE <<r.res[1]>> \o ParseItems(r.self, fuel - 1)

Errors(items) == {i \in 1..Len(items) : items[i].kind = "Err"}

HasScanError == Errors(ScanItems) # {}

\* the items of the parser on the tokens of a source without scan error
WholeParse ==
    ParseItems(Parser_new([i \in 1..Len(ScanItems) |-> ScanItems[i].token]), Len(ScanItems))

HasParseError == ~HasScanError /\ Errors(WholeParse) # {}

\* C30: when the source has a scan error or a parse error anywhere, run
\* evaluates no statement (no frame and no output changes) and returns the
\* first scan error, or else the first parse error, as soon as it is pulled:
\* an error item is the last item pulled.  A statement is evaluated only
\* after both the scanner and the parser have been pulled to their None.
C30_NoExecutionOnError ==
    /\ (HasScanError \/ HasParseError)
        => /\ run.executed = 0
           /\ frames = <<EnvironmentData_new(0)>>
           /\ out = <<>>
    /\ (op.name = "done" /\ HasScanError)
        => /\ result = ScanItems[Min(Errors(ScanItems))]
           /\ Len(pulled) = Min(Errors(ScanItems))
           /\ parser = None
    /\ (op.name = "done" /\ HasParseError)
        => /\ result = WholeParse[Min(Errors(WholeParse))]
           /\ Last = Some(result)
    /\ \A i \in 1..(Len(pulled) - 1) : pulled[i] = None \/ pulled[i][1].kind = "Ok"
    /\ run.executed > 0 => Nones(pulled) = 2

\* `1;+`: the statement `1;` is parsed, `+` is a parse error, and run has
\* returned it without evaluating `1;`
C30_Witness ==
    /\ source = <<"1", ";", "+">>
    /\ op.name = "done"
    /\ Len(run.parse_results) = 1
    /\ run.executed = 0
    /\ result = UnexpectedToken(Token(Lexeme("Plus"), 0), "Expected expression.")

====
